---- MODULE Spec2Model ----
(***************************************************************************)
(* SENTINEL payment-remediation pipeline: the confidence calibrator and    *)
(* the decision validator of council_agent.py / models.py, and the safety  *)
(* gate and executor of safety_validator.py / executor_agent.py.           *)
(*                                                                         *)
(* Conventions.  Texts are sequences of one-character strings, so that     *)
(* Python's `in`, str.lower() and len() are computed on characters.        *)
(* confidence, failure_rate and accuracies are in hundredths (0.70 = 70).  *)
(* Money is in paise (15.00 rupees = 1500); the average amounts of the     *)
(* inputs are multiples of half a rupee, so that 2% of one is whole paise. *)
(* Calibration modifiers are in millionths (1.0 = 1000000): a stored       *)
(* modifier in hundredths times two factors in hundredths.                 *)
(***************************************************************************)
EXTENDS Integers, Sequences, FiniteSets, TLC

VARIABLES
    \* ---- CouncilAgent ----
    pc,                 \* position in CouncilAgent.analyze_failures
    disk_history,       \* data/pattern_history.json
    pattern_history,    \* self.pattern_history
    top_clusters,       \* the result of _rank_clusters
    current_time,       \* current_time of _calibrate_confidence, in hours
    analyzed_clusters,  \* self.analyzed_clusters (the ranked top clusters)
    cal_idx,            \* clusters already calibrated by the loop of _calibrate_confidence
    calibrations,       \* self.calibrations
    llm_decisions,      \* the candidate dicts returned by _analyze_with_llm
    valid_decisions,    \* the result of _validate_decisions
    metrics,            \* the PerformanceMetrics of _calculate_metrics
    matched_clusters,   \* matched_cluster of each turn of the loop of _calculate_metrics
    attempt,            \* attempt of the retry loop of _analyze_with_llm
    decisions_file,     \* data/decisions.json
    \* ---- ExecutorAgent ----
    exec_pc,            \* position in ExecutorAgent.execute_decisions
    decisions,          \* the decisions loaded by _load_decisions
    idx,                \* decisions already handled by the loop of execute_decisions
    is_safe,            \* the last result of validate_decision
    reason,             \*   and its reason
    executions,         \* self.executions
    refusals,           \* self.refusals
    execution_summary,  \* data/execution_summary.json
    \* ---- a second CouncilAgent on the same pattern history file ----
    peer,               \* its position, self.pattern_history, clusters and calibrations
    \* ---- the head of analyze_failures ----
    transactions_file,  \* the list of dicts in data/transactions.json
    df,                 \* the rows _load_transactions returned
    failures,           \* the rows _filter_failures kept
    created_clusters    \* clusters, the result of _create_clusters

feed_vars == << transactions_file, df, failures, created_clusters >>
council_vars == << pc, disk_history, pattern_history, top_clusters, current_time,
                   analyzed_clusters,
                   cal_idx, calibrations, llm_decisions, valid_decisions, metrics,
                   decisions_file, peer, feed_vars, matched_clusters, attempt >>
executor_vars == << exec_pc, decisions, idx, is_safe, reason, executions, refusals,
                    execution_summary >>
vars == << council_vars, executor_vars >>

\* Python's None: in a text-valued field, and in a number-valued field
None == "None"
NoNumber == -1

----------------------------------------------------------------------------
(* Bounds of the model.                                                    *)

\* decisions the proposer returns in one call
MaxDecisions == 2
\* ranked clusters of one analysis run
MaxClusters == 3
\* runs of analyze_failures on one pattern history file, one after the other
MaxRuns == 3

----------------------------------------------------------------------------
(* Texts.                                                                  *)

\* str.lower() of the letters it changes
ToLower ==
    [ A |-> "a", B |-> "b", C |-> "c", D |-> "d", E |-> "e", F |-> "f", G |-> "g",
      H |-> "h", I |-> "i", J |-> "j", K |-> "k", L |-> "l", M |-> "m", N |-> "n",
      O |-> "o", P |-> "p", Q |-> "q", R |-> "r", S |-> "s", T |-> "t", U |-> "u",
      V |-> "v", W |-> "w", X |-> "x", Y |-> "y", Z |-> "z" ]
LowerCase == { ToLower[c] : c \in DOMAIN ToLower }
Digits == { "0", "1", "2", "3", "4", "5", "6", "7", "8", "9" }

\* str.lower() of one character
LowerChar(c) == IF c \in DOMAIN ToLower THEN ToLower[c] ELSE c

\* str.lower()
Lower(s) == [ i \in 1..Len(s) |-> LowerChar(s[i]) ]

\* Python's `sub in s`
Contains(s, sub) ==
    \E i \in 1..(Len(s) - Len(sub) + 1) : \A k \in 1..Len(sub) : s[i + k - 1] = sub[k]

\* str.replace(ch, '') for a single character
RECURSIVE Remove(_, _)
Remove(s, ch) ==
    IF s = << >> THEN << >>
    ELSE IF Head(s) = ch THEN Remove(Tail(s), ch)
    ELSE << Head(s) >> \o Remove(Tail(s), ch)

\* \w of the re module, on lower-cased text
IsWordChar(c) == c \in LowerCase \/ c \in Digits \/ c = "_"

\* re.search(r'\bword\b', s) for a word of word characters
ContainsWord(s, word) ==
    \E i \in 1..(Len(s) - Len(word) + 1) :
        /\ \A k \in 1..Len(word) : s[i + k - 1] = word[k]
        /\ (i = 1 \/ ~IsWordChar(s[i - 1]))
        /\ (i + Len(word) - 1 = Len(s) \/ ~IsWordChar(s[i + Len(word)]))

\* "Reroute cost: Rs 705. Revenue saved: Rs 7,332. Net: +Rs 6,627" (61 characters)
COST_POSITIVE ==
    << "R", "e", "r", "o", "u", "t", "e", " ", "c", "o", "s", "t", ":", " ", "R", "s",
       " ", "7", "0", "5", ".", " ", "R", "e", "v", "e", "n", "u", "e", " ", "s", "a",
       "v", "e", "d", ":", " ", "R", "s", " ", "7", ",", "3", "3", "2", ".", " ", "N",
       "e", "t", ":", " ", "+", "R", "s", " ", "6", ",", "6", "2", "7" >>

\* "Reroute cost: Rs 1,905. Revenue saved: Rs 254. Net: -Rs 1,651" (61 characters)
COST_NEGATIVE ==
    << "R", "e", "r", "o", "u", "t", "e", " ", "c", "o", "s", "t", ":", " ", "R", "s",
       " ", "1", ",", "9", "0", "5", ".", " ", "R", "e", "v", "e", "n", "u", "e", " ",
       "s", "a", "v", "e", "d", ":", " ", "R", "s", " ", "2", "5", "4", ".", " ", "N",
       "e", "t", ":", " ", "-", "R", "s", " ", "1", ",", "6", "5", "1" >>

\* "CFO: Revenue Rs 108 - Cost Rs 1,905 = Net -Rs 1,797" (51 characters)
COST_NEGATIVE_CFO ==
    << "C", "F", "O", ":", " ", "R", "e", "v", "e", "n", "u", "e", " ", "R", "s", " ",
       "1", "0", "8", " ", "-", " ", "C", "o", "s", "t", " ", "R", "s", " ", "1", ",",
       "9", "0", "5", " ", "=", " ", "N", "e", "t", " ", "-", "R", "s", " ", "1", ",",
       "7", "9", "7" >>

\* "Reroute cost: ₹705. Revenue saved: ₹7,332. Net: +₹6,627" (55 characters)
COST_RUPEE_SIGN ==
    << "R", "e", "r", "o", "u", "t", "e", " ", "c", "o", "s", "t", ":", " ", "₹", "7",
       "0", "5", ".", " ", "R", "e", "v", "e", "n", "u", "e", " ", "s", "a", "v", "e",
       "d", ":", " ", "₹", "7", ",", "3", "3", "2", ".", " ", "N", "e", "t", ":", " ",
       "+", "₹", "6", ",", "6", "2", "7" >>

\* "SBI micro-transactions below 100" (32 characters)
PATTERN_SBI ==
    << "S", "B", "I", " ", "m", "i", "c", "r", "o", "-", "t", "r", "a", "n", "s", "a", "c",
       "t", "i", "o", "n", "s", " ", "b", "e", "l", "o", "w", " ", "1", "0", "0" >>

\* "HDFC Rewards >5000 failing 14:00-16:00" (38 characters)
PATTERN_HDFC ==
    << "H", "D", "F", "C", " ", "R", "e", "w", "a", "r", "d", "s", " ", ">", "5", "0", "0",
       "0", " ", "f", "a", "i", "l", "i", "n", "g", " ", "1", "4", ":", "0", "0", "-", "1",
       "6", ":", "0", "0" >>

\* "HDFC Rewards and SBI Debit failures" (35 characters)
PATTERN_BOTH ==
    << "H", "D", "F", "C", " ", "R", "e", "w", "a", "r", "d", "s", " ", "a", "n", "d", " ",
       "S", "B", "I", " ", "D", "e", "b", "i", "t", " ", "f", "a", "i", "l", "u", "r", "e",
       "s" >>

\* "System-wide latency spike" (25 characters)
PATTERN_SYSTEM ==
    << "S", "y", "s", "t", "e", "m", "-", "w", "i", "d", "e", " ", "l", "a", "t", "e", "n",
       "c", "y", " ", "s", "p", "i", "k", "e" >>

\* "Small-value transactions with average amount forty-two rupees. Rerouting
\*  costs fifteen rupees per transaction." (110 characters)
REASONING_OK ==
    << "S", "m", "a", "l", "l", "-", "v", "a", "l", "u", "e", " ", "t", "r", "a", "n", "s",
       "a", "c", "t", "i", "o", "n", "s", " ", "w", "i", "t", "h", " ", "a", "v", "e", "r",
       "a", "g", "e", " ", "a", "m", "o", "u", "n", "t", " ", "f", "o", "r", "t", "y", "-",
       "t", "w", "o", " ", "r", "u", "p", "e", "e", "s", ".", " ", "R", "e", "r", "o", "u",
       "t", "i", "n", "g", " ", "c", "o", "s", "t", "s", " ", "f", "i", "f", "t", "e", "e",
       "n", " ", "r", "u", "p", "e", "e", "s", " ", "p", "e", "r", " ", "t", "r", "a", "n",
       "s", "a", "c", "t", "i", "o", "n", "." >>

----------------------------------------------------------------------------
(* models.py: the enums and AgentDecision.                                 *)

DecisionEnum ==
    { "REROUTE", "IGNORE", "ALERT", "THROTTLE", "FAILOVER", "CIRCUIT_BREAK",
      "BLOCK_USER", "BLOCK_CARD", "RATE_LIMIT", "STEP_UP_AUTH", "HOLD_FOR_REVIEW",
      "ESCALATE_SECURITY", "ESCALATE_PRIORITY", "COMPLIANCE_HOLD" }

TemporalSignalEnum == { "stable", "spike_detected", "declining" }

RiskCategoryEnum ==
    { "payment_failure", "high_traffic", "server_outage", "suspicious_activity",
      "high_risk_payment" }

\* AgentDecision.validate_cost_contains_currency: the rupee literal of models.py
\* is the three characters U+201A, U+00C7, U+03C0 (a rupee sign decoded in the
\* wrong charset; each is written here by its code point), so a text passes when
\* it holds those three characters or Rs
validate_cost_contains_currency(v) ==
    Contains(v, << "U+201A", "U+00C7", "U+03C0" >>) \/ Contains(v, << "R", "s" >>)

\* the forbidden_patterns of validate_no_technical_jargon, without their \b
forbidden_patterns ==
    << << "m", "o", "d", "e", "l" >>,
       << "a", "l", "g", "o", "r", "i", "t", "h", "m" >>,
       << "n", "e", "u", "r", "a", "l", " ", "n", "e", "t", "w", "o", "r", "k" >>,
       << "m", "a", "c", "h", "i", "n", "e", " ", "l", "e", "a", "r", "n", "i", "n", "g" >>,
       << "a", "i" >> >>

\* AgentDecision.validate_no_technical_jargon: no pattern is found in v.lower()
\* (re.IGNORECASE on the lower-cased text: the pattern AI is matched as ai)
validate_no_technical_jargon(v) ==
    \A k \in 1..Len(forbidden_patterns) : ~ContainsWord(Lower(v), forbidden_patterns[k])

\* the negative_indicators of validate_decision_cost_alignment
negative_indicators ==
    { << "n", "e", "t", ":", " ", "-" >>,
      << "n", "e", "t", ":", " ", "(", "-" >>,
      << "n", "e", "g", "a", "t", "i", "v", "e" >>,
      << "l", "o", "s", "s", " ", "o", "f" >>,
      << "w", "a", "s", "t", "e" >>,
      << "n", "e", "t", " ", "p", "r", "o", "f", "i", "t", ":", " ", "-" >> }

\* has_negative of validate_decision_cost_alignment
has_negative(cost_analysis) ==
    \E indicator \in negative_indicators : Contains(Lower(cost_analysis), indicator)

\* AgentDecision.validate_decision_cost_alignment: TRUE when it does not raise
validate_decision_cost_alignment(d) ==
    ~(has_negative(d.cost_analysis) /\ d.decision = "REROUTE")

\* AgentDecision(**decision_dict) does not raise: the Field constraints, the two
\* field validators and the model validator
AgentDecisionValid(d) ==
    /\ Len(d.pattern_detected) >= 20
    /\ d.affected_volume >= 1
    /\ d.avg_amount > 0
    /\ Len(d.cost_analysis) >= 30
    /\ d.temporal_signal \in TemporalSignalEnum
    /\ d.decision \in DecisionEnum
    /\ d.risk_category \in RiskCategoryEnum
    /\ Len(d.reasoning) >= 100
    /\ d.confidence >= 0 /\ d.confidence <= 100
    /\ validate_cost_contains_currency(d.cost_analysis)
    /\ validate_no_technical_jargon(d.reasoning)
    /\ validate_decision_cost_alignment(d)

\* the loop of _validate_decisions, were its except clause to leave the loop
RECURSIVE ValidDecisionsOf_until_first_failure(_)
ValidDecisionsOf_until_first_failure(dicts) ==
    IF dicts = << >> THEN << >>
    ELSE IF AgentDecisionValid(Head(dicts))
         THEN << Head(dicts) >> \o ValidDecisionsOf_until_first_failure(Tail(dicts))
         ELSE << >>

\* the loop of _validate_decisions / _load_decisions: the dicts that construct
\* an AgentDecision, in input order
RECURSIVE ValidDecisionsOf(_)
ValidDecisionsOf(dicts) ==
    IF dicts = << >> THEN << >>
    ELSE IF AgentDecisionValid(Head(dicts))
         THEN << Head(dicts) >> \o ValidDecisionsOf(Tail(dicts))
         ELSE ValidDecisionsOf(Tail(dicts))

\* the errors of validate_decision_batch: one per dict that raises, named by the
\* index i of f"Decision {i}: ..."
RECURSIVE batch_errors(_, _)
batch_errors(dicts, i) ==
    IF dicts = << >> THEN << >>
    ELSE IF AgentDecisionValid(Head(dicts))
         THEN batch_errors(Tail(dicts), i + 1)
         ELSE << i >> \o batch_errors(Tail(dicts), i + 1)

\* validate_decision_batch: (validated, errors)
validate_decision_batch(dicts) ==
    [ validated |-> ValidDecisionsOf(dicts), errors |-> batch_errors(dicts, 0) ]

----------------------------------------------------------------------------
(* safety_validator.py: the Safety Gate.                                   *)

CONFIDENCE_THRESHOLD == 70
SAFETY_VOLUME_LIMIT == 1000
\* 15.00 rupees per transaction
OVERRIDE_COST_PER_TXN == 1500

\* "Net: -" in cost_analysis or "Net -" in cost_analysis
gate_negative_net(cost_analysis) ==
    \/ Contains(cost_analysis, << "N", "e", "t", ":", " ", "-" >>)
    \/ Contains(cost_analysis, << "N", "e", "t", " ", "-" >>)

\* the reason texts of validate_decision: the fixed words and the formatted value
ConfidenceRefusal(d) ==
    [ text |-> "Confidence below threshold", value |-> d.confidence ]
NegativeNetRefusal ==
    [ text |-> "REROUTE decision has negative net benefit", value |-> 0 ]
VolumeRefusal(d) ==
    [ text |-> "Affected volume exceeds safety limit (1000)", value |-> d.affected_volume ]
PASSED ==
    [ text |-> "PASSED", value |-> 0 ]

\* validate_decision without its volume rule
validate_decision_volume_unchecked(d) ==
    IF d.confidence < CONFIDENCE_THRESHOLD
    THEN << FALSE, ConfidenceRefusal(d) >>
    ELSE IF d.decision = "REROUTE" /\ gate_negative_net(d.cost_analysis)
    THEN << FALSE, NegativeNetRefusal >>
    ELSE << TRUE, PASSED >>

\* validate_decision with the volume rule before the net-benefit rule
validate_decision_volume_first(d) ==
    IF d.confidence < CONFIDENCE_THRESHOLD
    THEN << FALSE, ConfidenceRefusal(d) >>
    ELSE IF d.affected_volume > SAFETY_VOLUME_LIMIT
    THEN << FALSE, VolumeRefusal(d) >>
    ELSE IF d.decision = "REROUTE" /\ gate_negative_net(d.cost_analysis)
    THEN << FALSE, NegativeNetRefusal >>
    ELSE << TRUE, PASSED >>

\* validate_decision: << is_safe, reason >>
validate_decision(d) ==
    IF d.confidence < CONFIDENCE_THRESHOLD
    THEN << FALSE, ConfidenceRefusal(d) >>
    ELSE IF d.decision = "REROUTE" /\ gate_negative_net(d.cost_analysis)
    THEN << FALSE, NegativeNetRefusal >>
    ELSE IF d.affected_volume > SAFETY_VOLUME_LIMIT
    THEN << FALSE, VolumeRefusal(d) >>
    ELSE << TRUE, PASSED >>

\* create_safety_override pricing the refusal by the average amount
create_safety_override_by_amount(d, refusal_reason) ==
    [ pattern           |-> d.pattern_detected,
      original_decision |-> d.decision,
      confidence        |-> d.confidence,
      reason            |-> refusal_reason,
      affected          |-> d.affected_volume,
      cost_avoided      |-> d.affected_volume * d.avg_amount ]

\* create_safety_override
create_safety_override(d, refusal_reason) ==
    [ pattern           |-> d.pattern_detected,
      original_decision |-> d.decision,
      confidence        |-> d.confidence,
      reason            |-> refusal_reason,
      affected          |-> d.affected_volume,
      cost_avoided      |-> d.affected_volume * OVERRIDE_COST_PER_TXN ]

----------------------------------------------------------------------------
(* council_agent.py: pattern classification.                               *)

\* one FailureCluster: bank, card_type and amount_range are texts, avg_amount
\* is in paise and failure_rate in hundredths
Cluster(bank, card_type, amount_range, count, avg_amount, failure_rate) ==
    [ bank |-> bank, card_type |-> card_type, amount_range |-> amount_range,
      count |-> count, avg_amount |-> avg_amount, failure_rate |-> failure_rate ]

DigitChar(n) == << "0", "1", "2", "3", "4", "5", "6", "7", "8", "9" >>[n + 1]

\* str() of a failure rate given in hundredths: 1.0, 0.9, 0.76
FloatText(fr) ==
    IF fr >= 100 THEN << "1", ".", "0" >>
    ELSE IF fr % 10 = 0 THEN << "0", ".", DigitChar(fr \div 10) >>
    ELSE << "0", ".", DigitChar(fr \div 10), DigitChar(fr % 10) >>

\* pattern_text of _classify_pattern_type
pattern_text(cluster) ==
    Lower(cluster.bank \o << " " >> \o cluster.card_type \o << " " >>
          \o cluster.amount_range \o << " " >> \o FloatText(cluster.failure_rate))

\* the classifier testing for card testing before the amount range
classify_pattern_type_card_testing_first(cluster) ==
    IF cluster.failure_rate > 70
       /\ Contains(pattern_text(cluster), << "s", "p", "i", "k", "e" >>)
    THEN "bank_spike"
    ELSE IF cluster.count > 50 /\ cluster.failure_rate > 80
    THEN "card_testing"
    ELSE IF \/ Contains(cluster.amount_range, << "<", "1", "0", "0" >>)
            \/ Contains(cluster.amount_range, << "<", "2", "0", "0" >>)
    THEN "micro_transaction"
    ELSE IF \/ Contains(cluster.amount_range, << ">", "5", "0", "0", "0" >>)
            \/ cluster.avg_amount > 5000 * 100
    THEN "vip_anomaly"
    ELSE IF \/ Contains(pattern_text(cluster), << "f", "r", "a", "u", "d" >>)
            \/ Contains(pattern_text(cluster),
                        << "s", "e", "c", "u", "r", "i", "t", "y" >>)
    THEN "high_risk_payment"
    ELSE "payment_failure"

\* the classifier with failure_rate >= 0.8 as the test of card testing
classify_pattern_type_card_testing_from_080(cluster) ==
    IF cluster.failure_rate > 70
       /\ Contains(pattern_text(cluster), << "s", "p", "i", "k", "e" >>)
    THEN "bank_spike"
    ELSE IF \/ Contains(cluster.amount_range, << "<", "1", "0", "0" >>)
            \/ Contains(cluster.amount_range, << "<", "2", "0", "0" >>)
    THEN "micro_transaction"
    ELSE IF \/ Contains(cluster.amount_range, << ">", "5", "0", "0", "0" >>)
            \/ cluster.avg_amount > 5000 * 100
    THEN "vip_anomaly"
    ELSE IF cluster.count > 50 /\ cluster.failure_rate >= 80
    THEN "card_testing"
    ELSE IF \/ Contains(pattern_text(cluster), << "f", "r", "a", "u", "d" >>)
            \/ Contains(pattern_text(cluster),
                        << "s", "e", "c", "u", "r", "i", "t", "y" >>)
    THEN "high_risk_payment"
    ELSE "payment_failure"

classify_pattern_type(cluster) ==
    IF cluster.failure_rate > 70
       /\ Contains(pattern_text(cluster), << "s", "p", "i", "k", "e" >>)
    THEN "bank_spike"
    ELSE IF \/ Contains(cluster.amount_range, << "<", "1", "0", "0" >>)
            \/ Contains(cluster.amount_range, << "<", "2", "0", "0" >>)
    THEN "micro_transaction"
    ELSE IF \/ Contains(cluster.amount_range, << ">", "5", "0", "0", "0" >>)
            \/ cluster.avg_amount > 5000 * 100
    THEN "vip_anomaly"
    ELSE IF cluster.count > 50 /\ cluster.failure_rate > 80
    THEN "card_testing"
    ELSE IF \/ Contains(pattern_text(cluster), << "f", "r", "a", "u", "d" >>)
            \/ Contains(pattern_text(cluster),
                        << "s", "e", "c", "u", "r", "i", "t", "y" >>)
    THEN "high_risk_payment"
    ELSE "payment_failure"

----------------------------------------------------------------------------
(* council_agent.py: the confidence calibrator.  A stored modifier is in    *)
(* hundredths; the running base_modifier is in millionths, so that the     *)
(* products of the rules are exact.                                        *)

\* a number-valued key the stored record does not have (dict.get returns its
\* default)
AbsentKey == -2

\* the record _calibrate_confidence creates for a pattern type it has not seen
NewHistory(pattern_type) ==
    [ pattern_type                    |-> pattern_type,
      total_occurrences               |-> 0,
      predictions_correct             |-> 0,
      predictions_wrong               |-> 0,
      prediction_accuracy             |-> NoNumber,
      average_resolution_time_minutes |-> NoNumber,
      last_seen_timestamp             |-> NoNumber,
      last_outcome                    |-> None,
      second_to_last_outcome          |-> None,
      current_confidence_modifier     |-> 100,
      confidence_adjustment_log       |-> << >> ]

FRESH_PATTERN_MODIFIER == 800000
RESET_MODIFIER == 1000000
STALENESS_RESET_HOURS == 48
CONFIDENCE_FLOOR == 40

\* _apply_rule_3 recording RULE_3 whether or not the accuracy is known
apply_rule_3_always_recorded(base_modifier, history, rules_applied) ==
    LET accuracy == history.prediction_accuracy IN
    [ base  |-> IF accuracy \in { AbsentKey, NoNumber } \/ accuracy >= 85 THEN base_modifier
                ELSE IF accuracy >= 70 THEN (base_modifier * 92) \div 100
                ELSE IF accuracy >= 50 THEN (base_modifier * 80) \div 100
                ELSE (base_modifier * 65) \div 100,
      rules |-> Append(rules_applied, "RULE_3") ]

\* _apply_rule_3: the new base_modifier and rules_applied
apply_rule_3(base_modifier, history, rules_applied) ==
    LET accuracy == history.prediction_accuracy IN
    IF accuracy \in { AbsentKey, NoNumber } \/ history.total_occurrences = 0
    THEN [ base |-> base_modifier, rules |-> rules_applied ]
    ELSE [ base  |-> IF accuracy >= 85 THEN base_modifier
                     ELSE IF accuracy >= 70 THEN (base_modifier * 92) \div 100
                     ELSE IF accuracy >= 50 THEN (base_modifier * 80) \div 100
                     ELSE (base_modifier * 65) \div 100,
           rules |-> Append(rules_applied, "RULE_3") ]

\* _apply_rule_4 penalising a miss wherever it lies in the last two outcomes
apply_rule_4_any_miss(base_modifier, history, rules_applied) ==
    LET last        == history.last_outcome
        second_last == history.second_to_last_outcome
    IN  IF last = "prediction_miss" /\ second_last = "prediction_miss"
        THEN [ base  |-> (base_modifier * 70) \div 100,
               rules |-> Append(rules_applied, "RULE_4") ]
        ELSE IF last = "prediction_miss" \/ second_last = "prediction_miss"
        THEN [ base  |-> (base_modifier * 88) \div 100,
               rules |-> Append(rules_applied, "RULE_4") ]
        ELSE [ base |-> base_modifier, rules |-> rules_applied ]

\* _apply_rule_4: the new base_modifier and rules_applied
apply_rule_4(base_modifier, history, rules_applied) ==
    LET last        == history.last_outcome
        second_last == history.second_to_last_outcome
    IN  IF last = "prediction_miss" /\ second_last = "prediction_miss"
        THEN [ base  |-> (base_modifier * 70) \div 100,
               rules |-> Append(rules_applied, "RULE_4") ]
        ELSE IF last = "prediction_miss"
        THEN [ base  |-> (base_modifier * 88) \div 100,
               rules |-> Append(rules_applied, "RULE_4") ]
        ELSE [ base |-> base_modifier, rules |-> rules_applied ]

\* the decay without its first step: 0.95 up to 30 minutes
calculate_staleness_decay_from_095(minutes) ==
    IF minutes <= 30 THEN 95
    ELSE IF minutes <= 60 THEN 85
    ELSE IF minutes <= 120 THEN 70
    ELSE 55

\* _calculate_staleness_decay, in hundredths
calculate_staleness_decay(minutes) ==
    IF minutes <= 15 THEN 100
    ELSE IF minutes <= 30 THEN 95
    ELSE IF minutes <= 60 THEN 85
    ELSE IF minutes <= 120 THEN 70
    ELSE 55

\* the branches with total_occurrences < 2 as the test of a fresh pattern
calibration_branch_fresh_below_two(history, now) ==
    IF history.total_occurrences < 2 THEN "FRESH"
    ELSE IF history.last_seen_timestamp # NoNumber
    THEN IF now - history.last_seen_timestamp > STALENESS_RESET_HOURS
         THEN "STALE" ELSE "RECENT"
    ELSE "FIRST_TIME"

\* the branches with hours_since >= 48 as the test of a stale record
calibration_branch_stale_from_48(history, now) ==
    IF history.total_occurrences <= 2 THEN "FRESH"
    ELSE IF history.last_seen_timestamp # NoNumber
    THEN IF now - history.last_seen_timestamp >= STALENESS_RESET_HOURS
         THEN "STALE" ELSE "RECENT"
    ELSE "FIRST_TIME"

\* the branch of the if / elif / else of _apply_calibration_rules
calibration_branch(history, now) ==
    IF history.total_occurrences <= 2 THEN "FRESH"
    ELSE IF history.last_seen_timestamp # NoNumber
    THEN IF now - history.last_seen_timestamp > STALENESS_RESET_HOURS
         THEN "STALE" ELSE "RECENT"
    ELSE "FIRST_TIME"

\* _build_council_briefing formats history.get("prediction_accuracy", 0) with
\* {accuracy:.0%}: a stored null raises TypeError, an absent key formats 0
briefing_raises(history, now) ==
    /\ calibration_branch(history, now) = "RECENT"
    /\ history.prediction_accuracy = NoNumber

\* " + ".join(rules_applied) if rules_applied else "No change"
adjustment_reason(rules_applied) ==
    IF rules_applied = << >> THEN "No change"
    ELSE IF Len(rules_applied) = 1 THEN rules_applied[1]
    ELSE rules_applied[1] \o " + " \o rules_applied[2]

\* the cascade with the staleness reset falling through to rules 3 and 4
rule_cascade_stale_falls_through(history, now) ==
    LET branch == calibration_branch(history, now)
        reset  == IF branch = "STALE" THEN RESET_MODIFIER
                  ELSE history.current_confidence_modifier * 10000
        r3     == apply_rule_3(reset, history,
                               IF branch = "STALE" THEN << "RULE_2" >> ELSE << >>)
        r4     == apply_rule_4(r3.base, history, r3.rules)
    IN  IF branch \in { "FRESH", "FIRST_TIME" }
        THEN [ base |-> FRESH_PATTERN_MODIFIER, rules |-> << "RULE_1" >>,
               overrides |-> << "RULE_1 overrode RULE_2, RULE_3, RULE_4" >> ]
        ELSE [ base |-> r4.base, rules |-> r4.rules, overrides |-> << >> ]

\* base_modifier and rules_applied at the end of the if / elif / else
rule_cascade(history, now) ==
    LET branch == calibration_branch(history, now)
        stored == history.current_confidence_modifier * 10000
        r3     == apply_rule_3(stored, history, << >>)
        r4     == apply_rule_4(r3.base, history, r3.rules)
    IN  IF branch \in { "FRESH", "FIRST_TIME" }
        THEN [ base |-> FRESH_PATTERN_MODIFIER, rules |-> << "RULE_1" >>,
               overrides |-> << "RULE_1 overrode RULE_2, RULE_3, RULE_4" >> ]
        ELSE IF branch = "STALE"
        THEN [ base |-> RESET_MODIFIER, rules |-> << "RULE_2" >>,
               overrides |-> << "RULE_2 overrode RULE_3, RULE_4" >> ]
        ELSE [ base |-> r4.base, rules |-> r4.rules, overrides |-> << >> ]

\* round(x, 2) of x given in units of which `unit` make one hundredth.  Off a
\* decimal tie the nearest hundredth; on a tie the double nearest to x lies
\* above or below it, and round() returns either neighbour.
Round2(x, unit) ==
    LET q == x \div unit
        r == x % unit
    IN  IF 2 * r < unit THEN { q }
        ELSE IF 2 * r > unit THEN { q + 1 }
        ELSE { q, q + 1 }

\* time_since_first_detected_minutes of _apply_calibration_rules
TIME_SINCE_FIRST_DETECTED_MINUTES == 0

\* the floor left out: the product is kept and only the flag is set
apply_confidence_floor_unclamped(final) ==
    [ final |-> final, floor_hit |-> final < CONFIDENCE_FLOOR * 1000000 ]

\* the confidence floor, on base_modifier * staleness_decay in units of 10^-8
apply_confidence_floor(final) ==
    IF final < CONFIDENCE_FLOOR * 1000000
    THEN [ final |-> CONFIDENCE_FLOOR * 1000000, floor_hit |-> TRUE ]
    ELSE [ final |-> final, floor_hit |-> FALSE ]

\* final_confidence_baseline before it is rounded, in units of 10^-8
final_before_rounding(history, now) ==
    apply_confidence_floor(
        rule_cascade(history, now).base
        * calculate_staleness_decay(TIME_SINCE_FIRST_DETECTED_MINUTES)).final

\* the values round(base_modifier, 2) and round(final_confidence_baseline, 2)
\* can take
RoundedBase(history, now) == Round2(rule_cascade(history, now).base, 10000)
RoundedFinal(history, now) == Round2(final_before_rounding(history, now), 1000000)

\* the dict returned by _apply_calibration_rules, for the rounded values
\* base_2 and final_2 (the calibration_id and the two narrative texts are left
\* out; whether building them raises is briefing_raises)
apply_calibration_rules(pattern_id, pattern_type, history, now, base_2, final_2) ==
    LET cascade == rule_cascade(history, now)
        staleness_decay ==
            calculate_staleness_decay(TIME_SINCE_FIRST_DETECTED_MINUTES)
        floored == apply_confidence_floor(cascade.base * staleness_decay)
    IN  [ pattern_id                |-> pattern_id,
          pattern_type              |-> pattern_type,
          rules_applied             |-> cascade.rules,
          rule_overrides            |-> cascade.overrides,
          base_modifier             |-> base_2,
          staleness_decay           |-> staleness_decay,
          final_confidence_baseline |-> final_2,
          confidence_floor_hit      |-> floored.floor_hit,
          needs_rescan              |-> \/ staleness_decay <= 70
                                        \/ floored.final <= 50 * 1000000,
          adjustment_log_entry      |->
              [ timestamp         |-> now,
                pattern_type      |-> pattern_type,
                previous_modifier |-> history.current_confidence_modifier,
                new_modifier      |-> base_2,
                reason            |-> adjustment_reason(cascade.rules) ] ]

----------------------------------------------------------------------------
(* council_agent.py: the metrics of the saved decisions.                   *)

\* 15.00 rupees
REROUTE_COST == 1500
\* 0.02, in percent
MARGIN_RATE == 2

\* amount * MARGIN_RATE
margin(amount) == (amount * MARGIN_RATE) \div 100

\* the three match tests of _find_matching_cluster
cluster_matches(pattern_lower, cluster) ==
    LET bank_match   == Contains(pattern_lower, Lower(cluster.bank))
        card_match   == Contains(pattern_lower, Lower(cluster.card_type))
        amount_match ==
            \/ Contains(pattern_lower, Lower(cluster.amount_range))
            \/ Contains(pattern_lower, Remove(Remove(cluster.amount_range, "<"), ">"))
    IN  (IF bank_match THEN 1 ELSE 0) + (IF card_match THEN 1 ELSE 0)
        + (IF amount_match THEN 1 ELSE 0)

\* the search returning the last cluster with two matches
find_matching_cluster_last(decision, clusters) ==
    LET pattern_lower == Lower(decision.pattern_detected)
        hits == { i \in 1..Len(clusters) : cluster_matches(pattern_lower, clusters[i]) >= 2 }
    IN  IF hits = {} THEN 0 ELSE CHOOSE i \in hits : \A j \in hits : i >= j

\* _find_matching_cluster: the index of the first cluster with two matches, 0 for None
find_matching_cluster(decision, clusters) ==
    LET pattern_lower == Lower(decision.pattern_detected)
        hits == { i \in 1..Len(clusters) : cluster_matches(pattern_lower, clusters[i]) >= 2 }
    IN  IF hits = {} THEN 0 ELSE CHOOSE i \in hits : \A j \in hits : i <= j

\* the cost of a REROUTE decision taken from the decision's own volume
reroute_cost_of_reported_volume(decision, clusters) ==
    decision.affected_volume * REROUTE_COST

\* the cost and revenue one REROUTE decision adds to the totals
reroute_cost(decision, clusters) ==
    LET m == find_matching_cluster(decision, clusters)
    IN  IF m # 0 THEN clusters[m].count * REROUTE_COST
        ELSE decision.affected_volume * REROUTE_COST

reroute_revenue(decision, clusters) ==
    LET m == find_matching_cluster(decision, clusters)
    IN  IF m # 0 THEN clusters[m].count * margin(clusters[m].avg_amount)
        ELSE decision.affected_volume * margin(decision.avg_amount)

\* total_cost and total_revenue after the loop over the REROUTE decisions
RECURSIVE TotalCost(_, _)
TotalCost(ds, clusters) ==
    IF ds = << >> THEN 0
    ELSE reroute_cost(Head(ds), clusters) + TotalCost(Tail(ds), clusters)

RECURSIVE TotalRevenue(_, _)
TotalRevenue(ds, clusters) ==
    IF ds = << >> THEN 0
    ELSE reroute_revenue(Head(ds), clusters) + TotalRevenue(Tail(ds), clusters)

WithAction(ds, action) == SelectSeq(ds, LAMBDA d : d.decision = action)

\* _calculate_metrics (total_transactions and total_failures, which it passes
\* through, are left out)
calculate_metrics(ds, clusters) ==
    LET reroutes      == WithAction(ds, "REROUTE")
        total_cost    == TotalCost(reroutes, clusters)
        total_revenue == TotalRevenue(reroutes, clusters)
    IN  [ reroutes_executed   |-> Len(reroutes),
          reroutes_ignored    |-> Len(WithAction(ds, "IGNORE")),
          alerts_raised       |-> Len(WithAction(ds, "ALERT")),
          total_cost          |-> total_cost,
          total_revenue_saved |-> total_revenue,
          net_profit          |-> total_revenue - total_cost,
          patterns_discovered |-> Len(ds),
          decision_accuracy   |-> 85 ]

\* the PerformanceMetrics analyze_failures returns when no cluster was found
ZeroMetrics ==
    [ reroutes_executed |-> 0, reroutes_ignored |-> 0, alerts_raised |-> 0,
      total_cost |-> 0, total_revenue_saved |-> 0, net_profit |-> 0,
      patterns_discovered |-> 0, decision_accuracy |-> 0 ]

----------------------------------------------------------------------------
(* executor_agent.py and tools/reroute_tool.py.                            *)

\* banks of _extract_bank, in its order
banks ==
    << << "H", "D", "F", "C" >>, << "S", "B", "I" >>, << "I", "C", "I", "C", "I" >>,
       << "A", "x", "i", "s" >>, << "K", "o", "t", "a", "k" >> >>

\* _extract_bank: the index in banks of the first bank named in the pattern,
\* HDFC when none is
extract_bank(pattern) ==
    LET found == { b \in 1..Len(banks) : Contains(pattern, banks[b]) }
    IN  IF found = {} THEN 1 ELSE CHOOSE b \in found : \A c \in found : b <= c

bank_name == << "HDFC", "SBI", "ICICI", "Axis", "Kotak" >>

\* RerouteTool: the best backup provider of each bank and its success rate
backup_provider == << "Razorpay", "Razorpay", "Axis", "ICICI", "Razorpay" >>
success_rate == << 95, 93, 96, 94, 92 >>

\* _execute_reroute: the ExecutionResult it appends (timestamp left out)
execute_reroute(id, d) ==
    LET bank       == extract_bank(d.pattern_detected)
        successful == (d.affected_volume * success_rate[bank]) \div 100
        cost       == d.affected_volume * REROUTE_COST
        revenue    == successful * margin(d.avg_amount)
    IN  [ id |-> id, pattern |-> d.pattern_detected, action |-> d.decision,
          status |-> "SUCCESS", confidence |-> d.confidence,
          from_provider |-> bank_name[bank], to_provider |-> backup_provider[bank],
          affected |-> d.affected_volume, successful |-> successful,
          failed |-> d.affected_volume - successful,
          cost |-> cost, revenue |-> revenue, net |-> revenue - cost,
          severity |-> None, capital_preserved |-> NoNumber ]

\* _execute_alert: the ExecutionResult it appends (timestamp and message left out)
execute_alert(id, d) ==
    [ id |-> id, pattern |-> d.pattern_detected, action |-> d.decision,
      status |-> "SENT", confidence |-> d.confidence,
      from_provider |-> None, to_provider |-> None,
      affected |-> d.affected_volume, successful |-> NoNumber, failed |-> NoNumber,
      cost |-> 0, revenue |-> NoNumber, net |-> NoNumber,
      severity |-> CASE d.temporal_signal = "stable" -> "MEDIUM"
                     [] d.temporal_signal = "spike_detected" -> "HIGH"
                     [] d.temporal_signal = "declining" -> "LOW"
                     [] OTHER -> "MEDIUM",
      capital_preserved |-> NoNumber ]

\* _execute_ignore: the ExecutionResult it appends (timestamp left out)
execute_ignore(id, d) ==
    [ id |-> id, pattern |-> d.pattern_detected, action |-> d.decision,
      status |-> "LOGGED", confidence |-> d.confidence,
      from_provider |-> None, to_provider |-> None,
      affected |-> d.affected_volume, successful |-> NoNumber, failed |-> NoNumber,
      cost |-> 0, revenue |-> NoNumber, net |-> NoNumber,
      severity |-> None, capital_preserved |-> d.affected_volume * REROUTE_COST ]

\* the chain with its else branch logging the decision as _execute_ignore does
executions_after_else_logged(execs, id, d) ==
    IF d.decision = "REROUTE" THEN Append(execs, execute_reroute(id, d))
    ELSE IF d.decision = "ALERT" THEN Append(execs, execute_alert(id, d))
    ELSE Append(execs, execute_ignore(id, d))

\* the if / elif chain of execute_decisions for a decision that passed the gate
executions_after(execs, id, d) ==
    IF d.decision = "REROUTE" THEN Append(execs, execute_reroute(id, d))
    ELSE IF d.decision = "ALERT" THEN Append(execs, execute_alert(id, d))
    ELSE IF d.decision = "IGNORE" THEN Append(execs, execute_ignore(id, d))
    ELSE execs

----------------------------------------------------------------------------
(* models.py: Transaction.  council_agent.py: the loader, the clusterer    *)
(* and the ranker.  A row is one dict of data/transactions.json: bank and  *)
(* card_type are texts, amount is in paise, error_code is a text or None;  *)
(* its id, timestamp, merchant category, customer tier and latency are     *)
(* taken to be well formed.                                                *)

HDFC == << "H", "D", "F", "C" >>
SBI == << "S", "B", "I" >>
ICICI == << "I", "C", "I", "C", "I" >>
AXIS == << "A", "x", "i", "s" >>
KOTAK == << "K", "o", "t", "a", "k" >>
BankEnum == { HDFC, SBI, ICICI, AXIS, KOTAK }

DEBIT == << "D", "e", "b", "i", "t" >>
CREDIT == << "C", "r", "e", "d", "i", "t" >>
REWARDS == << "R", "e", "w", "a", "r", "d", "s" >>
CORPORATE == << "C", "o", "r", "p", "o", "r", "a", "t", "e" >>
CardTypeEnum == { DEBIT, CREDIT, REWARDS, CORPORATE }

StatusEnum == { "SUCCESS", "FAILED" }

\* Transaction.validate_error_code: TRUE when it does not raise
validate_error_code(row) ==
    ~(row.status = "SUCCESS" /\ row.error_code # None)

\* Transaction(**row) does not raise: the Field constraints and the validator
TransactionValid(row) ==
    /\ row.bank \in BankEnum
    /\ row.card_type \in CardTypeEnum
    /\ row.amount > 0
    /\ row.status \in StatusEnum
    /\ validate_error_code(row)

\* get_amount_bucket of _create_clusters
get_amount_bucket(amount) ==
    IF amount < 100 * 100 THEN << "<", "1", "0", "0" >>
    ELSE IF amount < 1000 * 100 THEN << "1", "0", "0", "-", "1", "0", "0", "0" >>
    ELSE IF amount < 5000 * 100 THEN << "1", "0", "0", "0", "-", "5", "0", "0", "0" >>
    ELSE << ">", "5", "0", "0", "0" >>

\* the characters of the keys in the order of their code points
CodeOrder ==
    << "-", "0", "1", "2", "3", "4", "5", "6", "7", "8", "9", "<", ">",
       "A", "B", "C", "D", "E", "F", "G", "H", "I", "J", "K", "L", "M", "N", "O", "P",
       "Q", "R", "S", "T", "U", "V", "W", "X", "Y", "Z",
       "a", "b", "c", "d", "e", "f", "g", "h", "i", "j", "k", "l", "m", "n", "o", "p",
       "q", "r", "s", "t", "u", "v", "w", "x", "y", "z" >>

\* ord(c), up to the order
Ord(c) == CHOOSE i \in 1..Len(CodeOrder) : CodeOrder[i] = c

\* Python's a < b on two strings
TextLess(a, b) ==
    \E i \in 1..Len(b) :
        /\ i <= Len(a) + 1
        /\ \A k \in 1..(i - 1) : a[k] = b[k]
        /\ (i = Len(a) + 1 \/ Ord(a[i]) < Ord(b[i]))

\* Python's a < b on two (bank, card_type, amount_range) tuples
KeyLess(a, b) ==
    \/ TextLess(a[1], b[1])
    \/ a[1] = b[1] /\ TextLess(a[2], b[2])
    \/ a[1] = b[1] /\ a[2] = b[2] /\ TextLess(a[3], b[3])

\* the grouping key of a row
group_key(row) == << row.bank, row.card_type, get_amount_bucket(row.amount) >>

\* the keys of a set, ascending: the order of groupby(grouping_keys, sort=True)
RECURSIVE SortedKeys(_)
SortedKeys(keys) ==
    IF keys = { } THEN << >>
    ELSE LET least == CHOOSE k \in keys : \A other \in keys \ { k } : KeyLess(k, other)
         IN  << least >> \o SortedKeys(keys \ { least })

\* sum of the amounts of rows
RECURSIVE SumAmounts(_)
SumAmounts(rows) ==
    IF rows = << >> THEN 0 ELSE Head(rows).amount + SumAmounts(Tail(rows))

\* the rows of a frame with a grouping key
rows_of(frame, key) == SelectSeq(frame, LAMBDA row : group_key(row) = key)

MIN_PATTERN_SIZE == 10
\* max_clusters of _rank_clusters
MAX_CLUSTERS == 12

\* the failure rate of a group, in hundredths (the hundredths it has reached)
failure_rate_of(group_size, segment_total) ==
    IF segment_total > 0 THEN (group_size * 100) \div segment_total ELSE 0

\* the failure rate, were segment_total the number of all rows
failure_rate_of_all_rows(failed_rows, all_df, key) ==
    failure_rate_of(Len(rows_of(failed_rows, key)), Len(all_df))

\* failure_rate of a group of _create_clusters
segment_failure_rate(failed_rows, all_df, key) ==
    failure_rate_of(Len(rows_of(failed_rows, key)), Len(rows_of(all_df, key)))

\* the group is not skipped by `if len(group_df) < MIN_PATTERN_SIZE: continue`
group_is_kept(failed_rows, key) ==
    Len(rows_of(failed_rows, key)) >= MIN_PATTERN_SIZE

\* the groups of the failed rows that are kept, in groupby order
kept_keys(failed_rows) ==
    SelectSeq(SortedKeys({ group_key(failed_rows[i]) : i \in 1..Len(failed_rows) }),
              LAMBDA key : group_is_kept(failed_rows, key))

\* FailureCluster(...) of a kept group does not raise: count > 0, avg_amount > 0
\* (the mean of the amounts), 0 <= failure_rate <= 1, and error_codes, the
\* non-null codes of the group, has at least one element
FailureClusterValid(failed_rows, all_df, key) ==
    LET group == rows_of(failed_rows, key)
    IN  /\ Len(group) > 0
        /\ SumAmounts(group) > 0
        /\ segment_failure_rate(failed_rows, all_df, key) \in 0..100
        /\ \E i \in 1..Len(group) : group[i].error_code # None

\* the FailureCluster of a kept group; avg_amount is the mean to the paisa
cluster_of(failed_rows, all_df, key) ==
    LET group == rows_of(failed_rows, key)
    IN  Cluster(key[1], key[2], key[3], Len(group), SumAmounts(group) \div Len(group),
                segment_failure_rate(failed_rows, all_df, key))

\* _create_clusters
create_clusters(failed_rows, all_df) ==
    LET keys == kept_keys(failed_rows)
    IN  [ i \in 1..Len(keys) |-> cluster_of(failed_rows, all_df, keys[i]) ]

\* the key of _rank_clusters, were it the impact alone
sort_key_less_by_impact_alone(a, b) ==
    a.count * a.avg_amount > b.count * b.avg_amount

\* key(a) < key(b) for the key of _rank_clusters:
\* (-(count * avg_amount), bank, card_type, amount_range)
sort_key_less(a, b) ==
    \/ a.count * a.avg_amount > b.count * b.avg_amount
    \/ /\ a.count * a.avg_amount = b.count * b.avg_amount
       /\ KeyLess(<< a.bank, a.card_type, a.amount_range >>,
                  << b.bank, b.card_type, b.amount_range >>)

\* sorted(): each element goes behind those whose key is not greater (stable)
RECURSIVE sorted_insert(_, _)
sorted_insert(c, out) ==
    IF out = << >> THEN << c >>
    ELSE IF sort_key_less(c, Head(out)) THEN << c >> \o out
    ELSE << Head(out) >> \o sorted_insert(c, Tail(out))

RECURSIVE sorted_by_key(_)
sorted_by_key(list) ==
    IF list = << >> THEN << >>
    ELSE sorted_insert(list[Len(list)], sorted_by_key(SubSeq(list, 1, Len(list) - 1)))

\* _rank_clusters: ranked[:max_clusters]
rank_clusters(list, max_clusters) ==
    LET ranked == sorted_by_key(list)
    IN  SubSeq(ranked, 1, IF Len(ranked) < max_clusters THEN Len(ranked) ELSE max_clusters)

----------------------------------------------------------------------------
(* Inputs: the ranked clusters of a run, the stored pattern history, and   *)
(* the candidate decisions the proposer returns.                           *)

HDFC_REWARDS ==
    Cluster(<< "H", "D", "F", "C" >>, << "R", "e", "w", "a", "r", "d", "s" >>,
            << ">", "5", "0", "0", "0" >>, 47, 784250, 98)
ICICI_DEBIT ==
    Cluster(<< "I", "C", "I", "C", "I" >>, << "D", "e", "b", "i", "t" >>,
            << "1", "0", "0", "0", "-", "5", "0", "0", "0" >>, 59, 220000, 90)
AXIS_CREDIT ==
    Cluster(<< "A", "x", "i", "s" >>, << "C", "r", "e", "d", "i", "t" >>,
            << "1", "0", "0", "-", "1", "0", "0", "0" >>, 12, 50000, 30)
SBI_DEBIT ==
    Cluster(<< "S", "B", "I" >>, << "D", "e", "b", "i", "t" >>,
            << "<", "1", "0", "0" >>, 127, 4200, 76)
KOTAK_CREDIT ==
    Cluster(<< "K", "o", "t", "a", "k" >>, << "C", "r", "e", "d", "i", "t" >>,
            << "<", "1", "0", "0" >>, 20, 5000, 40)
ICICI_CREDIT ==
    Cluster(<< "I", "C", "I", "C", "I" >>, << "C", "r", "e", "d", "i", "t" >>,
            << "<", "1", "0", "0" >>, 10, 6000, 100)

\* the clusters of a run of the whole pipeline, and of a run of the calibrator,
\* in the order _rank_clusters gives them (count * avg_amount descending)
PipelineClusters == << HDFC_REWARDS, SBI_DEBIT >>
CalibratorClusters ==
    << HDFC_REWARDS, ICICI_DEBIT, AXIS_CREDIT, SBI_DEBIT, KOTAK_CREDIT, ICICI_CREDIT >>

\* the four values of get_amount_bucket, each with an average amount of its range
AmountBuckets ==
    { [ amount_range |-> << "<", "1", "0", "0" >>, avg_amount |-> 4200 ],
      [ amount_range |-> << "1", "0", "0", "-", "1", "0", "0", "0" >>, avg_amount |-> 50000 ],
      [ amount_range |-> << "1", "0", "0", "0", "-", "5", "0", "0", "0" >>,
        avg_amount |-> 220000 ],
      [ amount_range |-> << ">", "5", "0", "0", "0" >>, avg_amount |-> 784250 ] }

\* the bank of a row past the first five, which no model validates
SPIKE_BANK == << "S", "p", "i", "k", "e" >>
FRAUD_BANK == << "F", "r", "a", "u", "d" >>

\* the clusters the classifier is applied to: counts on either side of 50 and
\* failure rates on either side of 0.7 and of 0.8
ClassifierClusters ==
    { Cluster(bank, DEBIT, bucket.amount_range, count, bucket.avg_amount, failure_rate) :
        bank \in { HDFC, SBI, SPIKE_BANK, FRAUD_BANK }, bucket \in AmountBuckets,
        count \in { 50, 51 }, failure_rate \in { 70, 71, 80, 81 } }

\* the elements of ranked at the positions S, in their order
Pick(ranked, S) ==
    [ k \in 1..Cardinality(S) |->
        ranked[CHOOSE i \in S : Cardinality({ j \in S : j < i }) = k - 1] ]

\* the results _rank_clusters can give: up to MaxClusters of the ranked clusters
RankedLists(ranked) ==
    { Pick(ranked, S) : S \in { T \in SUBSET (1..Len(ranked)) : Cardinality(T) <= MaxClusters } }

\* data/pattern_history.json: absent, or the mapping it holds
NoFile == [ exists |-> FALSE, data |-> << >> ]
StoredFile(data) == [ exists |-> TRUE, data |-> data ]

\* a stored record of a pattern type
StoredHistory(pattern_type, occurrences, accuracy, last_seen, last, second_last, modifier) ==
    [ NewHistory(pattern_type) EXCEPT
        !.total_occurrences = occurrences,
        !.prediction_accuracy = accuracy,
        !.last_seen_timestamp = last_seen,
        !.last_outcome = last,
        !.second_to_last_outcome = second_last,
        !.current_confidence_modifier = modifier ]

\* the stores of a run of the calibrator: no file, or a file with a record of
\* micro_transaction (the clock of the run reads 1000 hours)
CalibratorStores ==
    { NoFile } \cup
    { StoredFile("micro_transaction" :>
                 StoredHistory("micro_transaction", occ, acc, seen, last, second, mod)) :
        occ \in { 2, 3 }, acc \in { AbsentKey, NoNumber, 45, 60, 75, 90 },
        seen \in { NoNumber, 951, 952 },
        last \in { None, "prediction_miss", "prediction_correct" },
        second \in { None, "prediction_miss" }, mod \in { 50, 100 } }

\* the stores of a run of the whole pipeline: no file, or a file whose records
\* have no accuracy yet
PipelineStores ==
    { NoFile,
      StoredFile([ t \in { "micro_transaction", "vip_anomaly" } |->
                     StoredHistory(t, 3, NoNumber, 999, None, None, 100) ]) }

\* one candidate decision dict
Candidate(pattern, volume, avg_amount, cost_analysis, decision, confidence) ==
    [ pattern_detected |-> pattern, affected_volume |-> volume,
      avg_amount |-> avg_amount, cost_analysis |-> cost_analysis,
      temporal_signal |-> "stable", decision |-> decision,
      risk_category |-> "payment_failure", reasoning |-> REASONING_OK,
      confidence |-> confidence ]

\* the dicts the proposer can return
CandidatePool ==
    { Candidate(IF volume = 1000 THEN PATTERN_SBI ELSE PATTERN_HDFC, volume,
                IF volume = 1000 THEN 4200 ELSE 784250, cost, "REROUTE", confidence) :
        volume \in { 1000, 1001 }, cost \in { COST_POSITIVE, COST_NEGATIVE_CFO },
        confidence \in { 65, 70 } }
    \cup
    { Candidate(IF volume = 1000 THEN PATTERN_SBI ELSE PATTERN_HDFC, volume,
                IF volume = 1000 THEN 4200 ELSE 784250, COST_NEGATIVE, "IGNORE",
                confidence) :
        volume \in { 1000, 1001 }, confidence \in { 65, 70 } }
    \cup
    { Candidate(PATTERN_SBI, 127, 4200, COST_NEGATIVE, "REROUTE", 94),
      Candidate(PATTERN_HDFC, 47, 784250, COST_RUPEE_SIGN, "REROUTE", 94),
      Candidate(PATTERN_BOTH, 174, 215000, COST_POSITIVE, "REROUTE", 94),
      Candidate(PATTERN_SYSTEM, 59, 150000, COST_POSITIVE, "ALERT", 82),
      Candidate(PATTERN_SYSTEM, 59, 150000, COST_POSITIVE, "THROTTLE", 82) }

DecisionLists == UNION { [ 1..n -> CandidatePool ] : n \in 0..MaxDecisions }

----------------------------------------------------------------------------
(* The state after CouncilAgent() and ExecutorAgent() are constructed.     *)

\* _load_pattern_history: the stored mapping, {} when there is no file
load_pattern_history(file) == IF file.exists THEN file.data ELSE << >>

\* no second agent runs
NoPeer ==
    [ pc |-> "absent", pattern_history |-> << >>, top_clusters |-> << >>,
      cal_idx |-> 0, calibrations |-> << >> ]

\* a run taken up where _rank_clusters has returned: the rows and the clusters
\* it ranked are not kept
NoFeed ==
    /\ transactions_file = [ exists |-> FALSE, data |-> << >> ]
    /\ df = << >>
    /\ failures = << >>
    /\ created_clusters = << >>

\* the agents after construction
InitAgents(stores) ==
    /\ disk_history \in stores
    /\ pattern_history = load_pattern_history(disk_history)
    /\ current_time = 1000
    /\ analyzed_clusters = << >>
    /\ cal_idx = 0
    /\ calibrations = << >>
    /\ llm_decisions = << >>
    /\ valid_decisions = << >>
    /\ metrics = ZeroMetrics
    /\ matched_clusters = << >>
    /\ attempt = 0
    /\ decisions_file = [ exists |-> FALSE, decisions |-> << >>, metrics |-> ZeroMetrics ]
    /\ exec_pc = "start"
    /\ decisions = << >>
    /\ idx = 0
    /\ is_safe = FALSE
    /\ reason = [ text |-> "", value |-> 0 ]
    /\ executions = << >>
    /\ refusals = << >>
    /\ execution_summary = [ exists |-> FALSE, total_executed |-> 0, total_refused |-> 0 ]

\* the agents after construction, the council where _rank_clusters has returned
InitCouncil(stores, ranked) ==
    /\ pc = "start"
    /\ top_clusters \in RankedLists(ranked)
    /\ InitAgents(stores)

InitWith(stores, ranked) ==
    /\ InitCouncil(stores, ranked)
    /\ peer = NoPeer
    /\ NoFeed

Init == InitWith(PipelineStores, PipelineClusters)

InitCalibrator == InitWith(CalibratorStores, CalibratorClusters)

----------------------------------------------------------------------------
(* CouncilAgent.analyze_failures.                                          *)

\* no cluster was found: the zero metrics are returned and nothing is saved
AnalyzeNoClusters ==
    /\ pc = "start"
    /\ top_clusters = << >>
    /\ metrics' = ZeroMetrics
    /\ pc' = "done"
    /\ UNCHANGED << disk_history, pattern_history, top_clusters, current_time,
                    analyzed_clusters, cal_idx, calibrations, llm_decisions,
                    valid_decisions, decisions_file, executor_vars, peer, feed_vars,
                    matched_clusters, attempt >>

\* self.analyzed_clusters = top_clusters
StoreClusters ==
    /\ pc = "start"
    /\ top_clusters # << >>
    /\ analyzed_clusters' = top_clusters
    /\ pc' = "calibrate"
    /\ UNCHANGED << disk_history, pattern_history, top_clusters, current_time,
                    cal_idx, calibrations, llm_decisions, valid_decisions, metrics,
                    decisions_file, executor_vars, peer, feed_vars, matched_clusters, attempt >>

\* self.pattern_history after the get-or-create of _calibrate_confidence
with_history(history_map, pattern_type) ==
    IF pattern_type \in DOMAIN history_map THEN history_map
    ELSE [ t \in DOMAIN history_map \cup { pattern_type } |->
             IF t = pattern_type THEN NewHistory(pattern_type) ELSE history_map[t] ]

\* f"PAT-{cluster.bank}-{cluster.card_type}-{idx:04d}"
pattern_id_of(cluster, i) == << "PAT", cluster.bank, cluster.card_type, i >>

\* one turn of the loop of _calibrate_confidence
CalibrateCluster ==
    /\ pc = "calibrate"
    /\ cal_idx < Len(top_clusters)
    /\ LET cluster      == top_clusters[cal_idx + 1]
           pattern_type == classify_pattern_type(cluster)
           history_map  == with_history(pattern_history, pattern_type)
           history      == history_map[pattern_type]
       IN  /\ ~briefing_raises(history, current_time)
           /\ pattern_history' = history_map
           /\ \E base_2 \in RoundedBase(history, current_time),
                 final_2 \in RoundedFinal(history, current_time) :
                 /\ (final_before_rounding(history, current_time)
                        = rule_cascade(history, current_time).base * 100) => final_2 = base_2
                 /\ calibrations' = Append(calibrations,
                        apply_calibration_rules(pattern_id_of(cluster, cal_idx), pattern_type,
                                                history, current_time, base_2, final_2))
    /\ cal_idx' = cal_idx + 1
    /\ UNCHANGED << pc, disk_history, top_clusters, current_time, analyzed_clusters,
                    llm_decisions, valid_decisions, metrics, decisions_file,
                    executor_vars, peer, feed_vars, matched_clusters, attempt >>

\* the turn of the loop in which _build_council_briefing raises TypeError: the
\* exception leaves analyze_failures
CalibrateRaises ==
    /\ pc = "calibrate"
    /\ cal_idx < Len(top_clusters)
    /\ LET pattern_type == classify_pattern_type(top_clusters[cal_idx + 1])
           history_map  == with_history(pattern_history, pattern_type)
       IN  /\ briefing_raises(history_map[pattern_type], current_time)
           /\ pattern_history' = history_map
    /\ pc' = "error"
    /\ UNCHANGED << disk_history, top_clusters, current_time, analyzed_clusters,
                    cal_idx, calibrations, llm_decisions, valid_decisions, metrics,
                    decisions_file, executor_vars, peer, feed_vars, matched_clusters, attempt >>

\* the end of _calibrate_confidence: _save_pattern_history
SavePatternHistory ==
    /\ pc = "calibrate"
    /\ cal_idx = Len(top_clusters)
    /\ disk_history' = StoredFile(pattern_history)
    /\ pc' = "llm"
    /\ UNCHANGED << pattern_history, top_clusters, current_time, analyzed_clusters,
                    cal_idx, calibrations, llm_decisions, valid_decisions, metrics,
                    decisions_file, executor_vars, peer, feed_vars, matched_clusters, attempt >>

\* max_retries of _analyze_with_llm
max_retries == 2

\* the texts of the fallback decision of _analyze_with_llm
\* "LLM analysis failed - technical error" (37 characters)
FALLBACK_PATTERN ==
    << "L", "L", "M", " ", "a", "n", "a", "l", "y", "s", "i", "s", " ", "f", "a",
       "i", "l", "e", "d", " ", "-", " ", "t", "e", "c", "h", "n", "i", "c", "a",
       "l", " ", "e", "r", "r", "o", "r" >>

\* "Unable to calculate due to API failure or rate limit exceeded" (61 characters)
FALLBACK_COST ==
    << "U", "n", "a", "b", "l", "e", " ", "t", "o", " ", "c", "a", "l", "c", "u",
       "l", "a", "t", "e", " ", "d", "u", "e", " ", "t", "o", " ", "A", "P", "I",
       " ", "f", "a", "i", "l", "u", "r", "e", " ", "o", "r", " ", "r", "a", "t",
       "e", " ", "l", "i", "m", "i", "t", " ", "e", "x", "c", "e", "e", "d", "e",
       "d" >>

\* "Council unable to analyze pattern due to technical error (API failure, rate
\*  limit, or network issue). Defaulting to IGNORE to preserve capital and avoid
\*  risky decisions without proper analysis." (193 characters)
FALLBACK_REASONING ==
    << "C", "o", "u", "n", "c", "i", "l", " ", "u", "n", "a", "b", "l", "e", " ",
       "t", "o", " ", "a", "n", "a", "l", "y", "z", "e", " ", "p", "a", "t", "t",
       "e", "r", "n", " ", "d", "u", "e", " ", "t", "o", " ", "t", "e", "c", "h",
       "n", "i", "c", "a", "l", " ", "e", "r", "r", "o", "r", " ", "(", "A", "P",
       "I", " ", "f", "a", "i", "l", "u", "r", "e", ",", " ", "r", "a", "t", "e",
       " ", "l", "i", "m", "i", "t", ",", " ", "o", "r", " ", "n", "e", "t", "w",
       "o", "r", "k", " ", "i", "s", "s", "u", "e", ")", ".", " ", "D", "e", "f",
       "a", "u", "l", "t", "i", "n", "g", " ", "t", "o", " ", "I", "G", "N", "O",
       "R", "E", " ", "t", "o", " ", "p", "r", "e", "s", "e", "r", "v", "e", " ",
       "c", "a", "p", "i", "t", "a", "l", " ", "a", "n", "d", " ", "a", "v", "o",
       "i", "d", " ", "r", "i", "s", "k", "y", " ", "d", "e", "c", "i", "s", "i",
       "o", "n", "s", " ", "w", "i", "t", "h", "o", "u", "t", " ", "p", "r", "o",
       "p", "e", "r", " ", "a", "n", "a", "l", "y", "s", "i", "s", "." >>

\* the dict _analyze_with_llm returns when every attempt failed (avg_amount 0.01)
fallback_decision ==
    [ pattern_detected |-> FALLBACK_PATTERN, affected_volume |-> 1, avg_amount |-> 1,
      cost_analysis |-> FALLBACK_COST, temporal_signal |-> "stable",
      decision |-> "IGNORE", risk_category |-> "payment_failure",
      reasoning |-> FALLBACK_REASONING, confidence |-> 0 ]

\* the retry loop with one attempt more
retries_exhausted_one_later(k) == k = max_retries + 1

\* attempt == max_retries
retries_exhausted(k) == k = max_retries

\* an attempt of _analyze_with_llm that succeeds: the proposer's decision dicts
\* are returned
AnalyzeWithLLM ==
    /\ pc = "llm"
    /\ \E ds \in DecisionLists : llm_decisions' = ds
    /\ attempt' = 0
    /\ pc' = "validate"
    /\ UNCHANGED << disk_history, pattern_history, top_clusters, current_time,
                    analyzed_clusters, cal_idx, calibrations, valid_decisions, metrics,
                    decisions_file, executor_vars, peer, feed_vars, matched_clusters >>

\* an attempt of _analyze_with_llm that raises (the call, an empty response or
\* json.loads): the next attempt follows, or after the last one the fallback
\* decision is returned
AnalyzeWithLLMRaises ==
    /\ pc = "llm"
    /\ IF retries_exhausted(attempt)
       THEN /\ llm_decisions' = << fallback_decision >>
            /\ attempt' = 0
            /\ pc' = "validate"
       ELSE /\ attempt' = attempt + 1
            /\ UNCHANGED << pc, llm_decisions >>
    /\ UNCHANGED << disk_history, pattern_history, top_clusters, current_time,
                    analyzed_clusters, cal_idx, calibrations, valid_decisions, metrics,
                    decisions_file, executor_vars, peer, feed_vars, matched_clusters >>

\* _validate_decisions
ValidateDecisions ==
    /\ pc = "validate"
    /\ valid_decisions' = ValidDecisionsOf(llm_decisions)
    /\ pc' = "metrics"
    /\ UNCHANGED << disk_history, pattern_history, top_clusters, current_time,
                    analyzed_clusters, cal_idx, calibrations, llm_decisions, metrics,
                    decisions_file, executor_vars, peer, feed_vars, matched_clusters, attempt >>

\* _calculate_metrics(valid_decisions, ...)
CalculateMetrics ==
    /\ pc = "metrics"
    /\ metrics' = calculate_metrics(valid_decisions, analyzed_clusters)
    /\ matched_clusters' =
          LET reroutes == WithAction(valid_decisions, "REROUTE")
          IN  [ k \in 1..Len(reroutes) |->
                  find_matching_cluster(reroutes[k], analyzed_clusters) ]
    /\ pc' = "save"
    /\ UNCHANGED << disk_history, pattern_history, top_clusters, current_time,
                    analyzed_clusters, cal_idx, calibrations, llm_decisions,
                    valid_decisions, decisions_file, executor_vars, peer, feed_vars,
                    attempt >>

\* _save_results: data/decisions.json
SaveResults ==
    /\ pc = "save"
    /\ decisions_file' = [ exists |-> TRUE, decisions |-> valid_decisions,
                           metrics |-> metrics ]
    /\ pc' = "done"
    /\ UNCHANGED << disk_history, pattern_history, top_clusters, current_time,
                    analyzed_clusters, cal_idx, calibrations, llm_decisions,
                    valid_decisions, metrics, executor_vars, peer, feed_vars,
                    matched_clusters, attempt >>

----------------------------------------------------------------------------
(* ExecutorAgent.execute_decisions.                                        *)

\* _load_decisions: the saved dicts that construct an AgentDecision
LoadDecisions ==
    /\ exec_pc = "start"
    /\ decisions_file.exists
    /\ decisions' = ValidDecisionsOf(decisions_file.decisions)
    /\ idx' = 0
    /\ exec_pc' = "loop"
    /\ UNCHANGED << council_vars, is_safe, reason, executions, refusals,
                    execution_summary >>

\* one turn of the loop of execute_decisions: the gate, then the override or
\* the execution
ExecuteDecision ==
    /\ exec_pc = "loop"
    /\ idx < Len(decisions)
    /\ LET decision == decisions[idx + 1]
           verdict  == validate_decision(decision)
       IN  /\ is_safe' = verdict[1]
           /\ reason' = verdict[2]
           /\ IF ~verdict[1]
              THEN /\ refusals' = Append(refusals,
                                         create_safety_override(decision, verdict[2]))
                   /\ UNCHANGED executions
              ELSE /\ executions' = executions_after(executions, idx + 1, decision)
                   /\ UNCHANGED refusals
    /\ idx' = idx + 1
    /\ UNCHANGED << council_vars, exec_pc, decisions, execution_summary >>

\* _save_results of the executor: the counts of data/execution_summary.json
SaveExecutionResults ==
    /\ exec_pc = "loop"
    /\ idx = Len(decisions)
    /\ execution_summary' = [ exists |-> TRUE, total_executed |-> Len(executions),
                              total_refused |-> Len(refusals) ]
    /\ exec_pc' = "done"
    /\ UNCHANGED << council_vars, decisions, idx, is_safe, reason, executions,
                    refusals >>

----------------------------------------------------------------------------
(* The head of analyze_failures: load, filter, cluster, rank.              *)

\* rows of data/transactions.json that _load_transactions validates: data[:5]
VALIDATED_ROWS == 5

\* blocks of equal rows a feed is made of
MaxBlocks == 3

\* one row
Row(bank, card_type, amount, status, error_code) ==
    [ bank |-> bank, card_type |-> card_type, amount |-> amount, status |-> status,
      error_code |-> error_code ]

\* the rows of the feeds: failures and successes of SBI Debit below 100 rupees,
\* failures of HDFC Rewards above 5000, a failure without an error code, and
\* two rows Transaction rejects (a success with an error code, a negative amount)
FeedRows ==
    { Row(SBI, DEBIT, 4200, "FAILED", "TIMEOUT"),
      Row(SBI, DEBIT, 4200, "SUCCESS", None),
      Row(HDFC, REWARDS, 784250, "FAILED", "RISK_THRESHOLD_EXCEEDED"),
      Row(SBI, DEBIT, 6000, "FAILED", None),
      Row(SBI, DEBIT, 4200, "SUCCESS", "TIMEOUT"),
      Row(SBI, DEBIT, 0 - 4200, "FAILED", "TIMEOUT") }

\* the lengths of a block: one row, one less than a pattern, a pattern
BlockSizes == { 1, MIN_PATTERN_SIZE - 1, MIN_PATTERN_SIZE }

\* the lists of up to k blocks
RECURSIVE FeedsOf(_)
FeedsOf(k) ==
    IF k = 0 THEN { << >> }
    ELSE LET shorter == FeedsOf(k - 1)
         IN  shorter \cup { feed \o [ i \in 1..n |-> row ] :
                              feed \in shorter, row \in FeedRows, n \in BlockSizes }

\* data/transactions.json: absent, or a list of rows
TransactionFiles ==
    { [ exists |-> FALSE, data |-> << >> ] }
    \cup { [ exists |-> TRUE, data |-> feed ] : feed \in FeedsOf(MaxBlocks) }

\* what the head of analyze_failures leaves alone
run_vars == << disk_history, pattern_history, current_time, analyzed_clusters, cal_idx,
               calibrations, llm_decisions, valid_decisions, metrics, decisions_file,
               peer, executor_vars, matched_clusters, attempt >>

\* _load_transactions returns: the file exists, pd.DataFrame(data) has a
\* timestamp column (data is not empty), and the first rows construct a Transaction
load_transactions_returns(file) ==
    /\ file.exists
    /\ file.data # << >>
    /\ \A i \in 1..Len(file.data) : i <= VALIDATED_ROWS => TransactionValid(file.data[i])

\* df = self._load_transactions(transactions_path)
LoadTransactions ==
    /\ pc = "load"
    /\ load_transactions_returns(transactions_file)
    /\ df' = transactions_file.data
    /\ pc' = "filter"
    /\ UNCHANGED << transactions_file, failures, created_clusters, top_clusters, run_vars >>

\* _load_transactions raises FileNotFoundError, KeyError or ValidationError
LoadTransactionsRaises ==
    /\ pc = "load"
    /\ ~load_transactions_returns(transactions_file)
    /\ pc' = "error"
    /\ UNCHANGED << feed_vars, top_clusters, run_vars >>

\* failures = self._filter_failures(df)
FilterFailures ==
    /\ pc = "filter"
    /\ failures' = SelectSeq(df, LAMBDA row : row.status = "FAILED")
    /\ pc' = "cluster"
    /\ UNCHANGED << transactions_file, df, created_clusters, top_clusters, run_vars >>

\* clusters = self._create_clusters(failures, df)
CreateClusters ==
    /\ pc = "cluster"
    /\ LET keys == kept_keys(failures)
       IN  \A i \in 1..Len(keys) : FailureClusterValid(failures, df, keys[i])
    /\ created_clusters' = create_clusters(failures, df)
    /\ pc' = "rank"
    /\ UNCHANGED << transactions_file, df, failures, top_clusters, run_vars >>

\* FailureCluster(...) raises ValidationError for a kept group
CreateClustersRaises ==
    /\ pc = "cluster"
    /\ LET keys == kept_keys(failures)
       IN  \E i \in 1..Len(keys) : ~FailureClusterValid(failures, df, keys[i])
    /\ pc' = "error"
    /\ UNCHANGED << feed_vars, top_clusters, run_vars >>

\* top_clusters = self._rank_clusters(clusters)
RankClusters ==
    /\ pc = "rank"
    /\ top_clusters' = rank_clusters(created_clusters, MAX_CLUSTERS)
    /\ pc' = "start"
    /\ UNCHANGED << feed_vars, run_vars >>

\* the clusters the ranker is applied to: for each bank a Debit and a Credit
\* cluster of equal impact (20 x 3000 = 15 x 4000 rupees), a Rewards cluster of
\* an impact of its own, and a second SBI Debit cluster of that equal impact
RankerClusters ==
    { Cluster(bank, DEBIT, << "1", "0", "0", "0", "-", "5", "0", "0", "0" >>,
              20, 300000, 90) : bank \in BankEnum }
    \cup
    { Cluster(bank, CREDIT, << "1", "0", "0", "0", "-", "5", "0", "0", "0" >>,
              15, 400000, 90) : bank \in BankEnum }
    \cup
    { Cluster(bank, REWARDS, << ">", "5", "0", "0", "0" >>,
              10 + Len(bank), 784250, 90) : bank \in BankEnum }
    \cup
    { Cluster(SBI, DEBIT, << "<", "1", "0", "0" >>, 1000, 6000, 90) }

\* the grouping key of a cluster
cluster_key(c) == << c.bank, c.card_type, c.amount_range >>

\* clusters with distinct keys in the order _create_clusters appends them
in_groupby_order(S) ==
    LET keys == SortedKeys({ cluster_key(c) : c \in S })
    IN  [ i \in 1..Len(keys) |-> CHOOSE c \in S : cluster_key(c) = keys[i] ]

\* list[::-1]
Reversed(list) == [ i \in 1..Len(list) |-> list[Len(list) + 1 - i] ]

\* the lists the ranker is applied to: up to 2, or at least MAX_CLUSTERS + 1, of
\* the clusters, in groupby order or in the opposite order
RankerInputs ==
    LET sets == { S \in SUBSET RankerClusters :
                    Cardinality(S) <= 2 \/ Cardinality(S) > MAX_CLUSTERS }
    IN  { in_groupby_order(S) : S \in sets }
        \cup { Reversed(in_groupby_order(S)) : S \in sets }

----------------------------------------------------------------------------
(* A later run of main(): a new CouncilAgent is constructed on the pattern *)
(* history file the earlier run left, STALENESS_RESET_HOURS + 1 hours      *)
(* later.  What the earlier run does after _calibrate_confidence touches   *)
(* neither the file nor the calibrations, and is left out.                 *)

NewRun ==
    /\ pc \in { "llm", "done" }
    /\ current_time + STALENESS_RESET_HOURS + 1
          < 1000 + MaxRuns * (STALENESS_RESET_HOURS + 1)
    /\ pc' = "start"
    /\ current_time' = current_time + STALENESS_RESET_HOURS + 1
    /\ pattern_history' = load_pattern_history(disk_history)
    /\ top_clusters' \in RankedLists(CalibratorClusters)
    /\ analyzed_clusters' = << >>
    /\ cal_idx' = 0
    /\ calibrations' = << >>
    /\ metrics' = ZeroMetrics
    /\ UNCHANGED << disk_history, llm_decisions, valid_decisions, decisions_file,
                    executor_vars, peer, feed_vars, matched_clusters, attempt >>

----------------------------------------------------------------------------
(* A second CouncilAgent that runs analyze_failures on the same            *)
(* data/pattern_history.json: nothing in _load_pattern_history or          *)
(* _save_pattern_history locks the file.                                   *)

\* a second agent that is not constructed yet, with its ranked clusters
NewPeer(ranked) ==
    [ pc |-> "new", pattern_history |-> << >>, top_clusters |-> ranked,
      cal_idx |-> 0, calibrations |-> << >> ]

\* CouncilAgent.__init__ of the second agent: it loads the file as it is now
PeerConstruct ==
    /\ peer.pc = "new"
    /\ peer' = [ peer EXCEPT !.pc = "calibrate",
                             !.pattern_history = load_pattern_history(disk_history) ]
    /\ UNCHANGED << pc, disk_history, pattern_history, top_clusters, current_time,
                    analyzed_clusters, cal_idx, calibrations, llm_decisions,
                    valid_decisions, metrics, decisions_file, executor_vars, feed_vars,
                    matched_clusters, attempt >>

\* one turn of the loop of _calibrate_confidence in the second agent
PeerCalibrateCluster ==
    /\ peer.pc = "calibrate"
    /\ peer.cal_idx < Len(peer.top_clusters)
    /\ LET cluster      == peer.top_clusters[peer.cal_idx + 1]
           pattern_type == classify_pattern_type(cluster)
           history_map  == with_history(peer.pattern_history, pattern_type)
           history      == history_map[pattern_type]
       IN  /\ ~briefing_raises(history, current_time)
           /\ \E base_2 \in RoundedBase(history, current_time),
                 final_2 \in RoundedFinal(history, current_time) :
                 /\ (final_before_rounding(history, current_time)
                        = rule_cascade(history, current_time).base * 100) => final_2 = base_2
                 /\ peer' = [ peer EXCEPT
                        !.pattern_history = history_map,
                        !.cal_idx = peer.cal_idx + 1,
                        !.calibrations = Append(peer.calibrations,
                            apply_calibration_rules(pattern_id_of(cluster, peer.cal_idx),
                                pattern_type, history, current_time, base_2, final_2)) ]
    /\ UNCHANGED << pc, disk_history, pattern_history, top_clusters, current_time,
                    analyzed_clusters, cal_idx, calibrations, llm_decisions,
                    valid_decisions, metrics, decisions_file, executor_vars, feed_vars,
                    matched_clusters, attempt >>

\* the turn in which _build_council_briefing raises in the second agent
PeerCalibrateRaises ==
    /\ peer.pc = "calibrate"
    /\ peer.cal_idx < Len(peer.top_clusters)
    /\ LET pattern_type == classify_pattern_type(peer.top_clusters[peer.cal_idx + 1])
           history_map  == with_history(peer.pattern_history, pattern_type)
       IN  /\ briefing_raises(history_map[pattern_type], current_time)
           /\ peer' = [ peer EXCEPT !.pc = "error", !.pattern_history = history_map ]
    /\ UNCHANGED << pc, disk_history, pattern_history, top_clusters, current_time,
                    analyzed_clusters, cal_idx, calibrations, llm_decisions,
                    valid_decisions, metrics, decisions_file, executor_vars, feed_vars,
                    matched_clusters, attempt >>

\* _save_pattern_history of the second agent; the rest of its run leaves the
\* file alone
PeerSavePatternHistory ==
    /\ peer.pc = "calibrate"
    /\ peer.cal_idx = Len(peer.top_clusters)
    /\ disk_history' = StoredFile(peer.pattern_history)
    /\ peer' = [ peer EXCEPT !.pc = "done" ]
    /\ UNCHANGED << pc, pattern_history, top_clusters, current_time,
                    analyzed_clusters, cal_idx, calibrations, llm_decisions,
                    valid_decisions, metrics, decisions_file, executor_vars, feed_vars,
                    matched_clusters, attempt >>

----------------------------------------------------------------------------
(* Specifications.                                                         *)

\* the calibrator: analyze_failures up to the return of _calibrate_confidence
Calibrator ==
    \/ AnalyzeNoClusters
    \/ StoreClusters
    \/ CalibrateCluster
    \/ CalibrateRaises
    \/ SavePatternHistory

Council ==
    \/ Calibrator
    \/ AnalyzeWithLLM
    \/ AnalyzeWithLLMRaises
    \/ ValidateDecisions
    \/ CalculateMetrics
    \/ SaveResults

Executor ==
    \/ LoadDecisions
    \/ ExecuteDecision
    \/ SaveExecutionResults

Next == Council \/ Executor

\* one run of the council and one run of the executor on what it saved
Spec == Init /\ [][Next]_vars

\* one run of the calibrator on a stored history
SpecCalibrator == InitCalibrator /\ [][Calibrator]_vars

Peer ==
    \/ PeerConstruct
    \/ PeerCalibrateCluster
    \/ PeerCalibrateRaises
    \/ PeerSavePatternHistory

\* two agents calibrate against one pattern history file: the first is
\* constructed, the second is constructed at any moment of the first's run
InitConcurrent ==
    /\ InitCouncil(PipelineStores, PipelineClusters)
    /\ \E ranked \in RankedLists(PipelineClusters) \ { << >> } : peer = NewPeer(ranked)
    /\ NoFeed

NextConcurrent == Calibrator \/ Peer

SpecConcurrent == InitConcurrent /\ [][NextConcurrent]_vars

Feed ==
    \/ LoadTransactions
    \/ LoadTransactionsRaises
    \/ FilterFailures
    \/ CreateClusters
    \/ CreateClustersRaises
    \/ RankClusters

\* a run from its first line: the agent is constructed, the feed is on disk
InitFeed ==
    /\ pc = "load"
    /\ top_clusters = << >>
    /\ InitAgents(PipelineStores)
    /\ peer = NoPeer
    /\ transactions_file \in TransactionFiles
    /\ df = << >>
    /\ failures = << >>
    /\ created_clusters = << >>

NextFeed == Feed \/ Calibrator

\* _rank_clusters applied to a list of clusters
InitRanker ==
    /\ pc = "rank"
    /\ top_clusters = << >>
    /\ InitAgents({ NoFile })
    /\ peer = NoPeer
    /\ transactions_file = [ exists |-> FALSE, data |-> << >> ]
    /\ df = << >>
    /\ failures = << >>
    /\ created_clusters \in RankerInputs

NextRanker == RankClusters

SpecRanker == InitRanker /\ [][NextRanker]_vars

\* analyze_failures from the feed to the return of _calibrate_confidence
SpecFeed == InitFeed /\ [][NextFeed]_vars

\* runs of the calibrator that start with no pattern history file
InitRuns == InitWith({ NoFile }, CalibratorClusters)

NextRuns ==
    \/ AnalyzeNoClusters
    \/ StoreClusters
    \/ CalibrateCluster
    \/ SavePatternHistory
    \/ NewRun

SpecRuns == InitRuns /\ [][NextRuns]_vars

\* _calibrate_confidence on one ranked cluster and an empty store
InitClassifier ==
    /\ pc = "start"
    /\ \E cluster \in ClassifierClusters : top_clusters = << cluster >>
    /\ InitAgents({ NoFile })
    /\ peer = NoPeer
    /\ NoFeed

NextClassifier == StoreClusters \/ CalibrateCluster \/ SavePatternHistory

SpecClassifier == InitClassifier /\ [][NextClassifier]_vars

----------------------------------------------------------------------------
(* Properties of the validator, the safety gate and the executor, under    *)
(* Spec.                                                                   *)

\* C1: no decision that passed validation is a REROUTE whose cost narrative
\* encodes a negative net benefit, as the validator's indicators or the gate's
\* own test read it.
C1_NoValidatedNegativeReroute ==
    \A i \in 1..Len(valid_decisions) :
        LET d == valid_decisions[i]
        IN  ~( /\ d.decision = "REROUTE"
               /\ \/ has_negative(d.cost_analysis)
                  \/ gate_negative_net(d.cost_analysis) )

\* a REROUTE narrating "= Net -Rs 1,797" has passed validation and was saved
C1_NegativeRerouteSaved ==
    /\ decisions_file.exists
    /\ \E i \in 1..Len(decisions_file.decisions) :
          /\ decisions_file.decisions[i].decision = "REROUTE"
          /\ decisions_file.decisions[i].cost_analysis = COST_NEGATIVE_CFO

\* C2: a decision with affected_volume > 1000 is never approved: the gate's
\* verdict on it is not-safe, no execution is recorded for it, and each one
\* handled stands in the refusals, whatever its action and confidence.
C2_VolumeCeiling ==
    LET handled == SubSeq(decisions, 1, idx)
    IN  /\ \A i \in 1..Len(executions) : executions[i].affected <= 1000
        /\ (idx > 0 /\ decisions[idx].affected_volume > 1000) => ~is_safe
        /\ Len(SelectSeq(refusals, LAMBDA r : r.affected > 1000))
             = Len(SelectSeq(handled, LAMBDA d : d.affected_volume > 1000))

\* an IGNORE of 1001 transactions with confidence 0.70 was refused for its volume
C2_LargeVolumeRefused ==
    /\ idx > 0
    /\ decisions[idx].affected_volume = 1001
    /\ decisions[idx].decision = "IGNORE"
    /\ decisions[idx].confidence = 70
    /\ ~is_safe
    /\ reason = VolumeRefusal(decisions[idx])
    /\ refusals # << >>
    /\ refusals[Len(refusals)].affected = 1001

\* C3: the gate tests confidence >= 0.70, then REROUTE without a negative net,
\* then volume <= 1000, and its reason is that of the first test that fails: a
\* confidence below 0.70 always gets the confidence reason, and 0.70 passes.
C3_GateOrder ==
    idx > 0 =>
        LET d        == decisions[idx]
            low      == d.confidence < 70
            negative == d.decision = "REROUTE" /\ gate_negative_net(d.cost_analysis)
            large    == d.affected_volume > 1000
        IN  /\ low => (~is_safe /\ reason = ConfidenceRefusal(d))
            /\ (~low /\ negative) => (~is_safe /\ reason = NegativeNetRefusal)
            /\ (~low /\ ~negative /\ large) => (~is_safe /\ reason = VolumeRefusal(d))
            /\ (~low /\ ~negative /\ ~large) => (is_safe /\ reason = PASSED)

\* a REROUTE with confidence 0.70, a negative net and 1001 transactions was
\* refused for its net benefit
C3_SecondCheckDecides ==
    /\ idx > 0
    /\ decisions[idx].confidence = 70
    /\ decisions[idx].decision = "REROUTE"
    /\ gate_negative_net(decisions[idx].cost_analysis)
    /\ decisions[idx].affected_volume = 1001
    /\ ~is_safe
    /\ reason = NegativeNetRefusal

\* C4: a turn of the loop that refuses a decision appends exactly one
\* SafetyOverride (the original action, the confidence, the reason, affected =
\* volume, cost_avoided = volume x 15 rupees) and leaves the executions alone; a
\* turn that approves appends none.
C4_OneOverridePerRefusal ==
    [][ idx' = idx + 1 =>
          LET d == decisions[idx']
          IN  IF ~is_safe'
              THEN /\ refusals' = Append(refusals,
                         [ pattern           |-> d.pattern_detected,
                           original_decision |-> d.decision,
                           confidence        |-> d.confidence,
                           reason            |-> reason',
                           affected          |-> d.affected_volume,
                           cost_avoided      |-> d.affected_volume * 1500 ])
                   /\ executions' = executions
              ELSE refusals' = refusals ]_vars

\* two decisions were refused and two overrides recorded, none executed
C4_TwoRefusalsRecorded ==
    /\ idx = 2
    /\ Len(refusals) = 2
    /\ executions = << >>
    /\ refusals[1].cost_avoided = refusals[1].affected * 1500

\* C5: the financial totals and the decision-mix counts of the metrics are those
\* of the decisions the gate approves: a validated decision the gate refuses
\* contributes nothing to them.
C5_MetricsOfApprovedOnly ==
    pc = "save" =>
        LET approved == SelectSeq(valid_decisions, LAMBDA d : validate_decision(d)[1])
            expected == calculate_metrics(approved, analyzed_clusters)
        IN  /\ metrics.reroutes_executed = expected.reroutes_executed
            /\ metrics.reroutes_ignored = expected.reroutes_ignored
            /\ metrics.alerts_raised = expected.alerts_raised
            /\ metrics.total_cost = expected.total_cost
            /\ metrics.total_revenue_saved = expected.total_revenue_saved
            /\ metrics.net_profit = expected.net_profit

\* C25: total_cost is the sum over the REROUTE decisions of volume x 15 rupees
\* and total_revenue_saved the sum over them of volume x average amount x 0.02,
\* volume and average amount being those of the matched cluster when there is
\* one and the decision's own otherwise; net_profit is revenue - cost; every
\* other action adds nothing; and reroutes + ignores + alerts is at most
\* patterns_discovered, the number of decisions.
C25_MetricsOfReroutes ==
    pc = "save" =>
        LET n          == Len(valid_decisions)
            matched(d) == find_matching_cluster(d, analyzed_clusters)
            volume(d)  == IF matched(d) # 0 THEN analyzed_clusters[matched(d)].count
                          ELSE d.affected_volume
            amount(d)  == IF matched(d) # 0 THEN analyzed_clusters[matched(d)].avg_amount
                          ELSE d.avg_amount
            is_reroute(k) == valid_decisions[k].decision = "REROUTE"
            cost[k \in 0..n] ==
                IF k = 0 THEN 0
                ELSE cost[k - 1]
                     + (IF is_reroute(k) THEN volume(valid_decisions[k]) * 1500 ELSE 0)
            revenue[k \in 0..n] ==
                IF k = 0 THEN 0
                ELSE revenue[k - 1]
                     + (IF is_reroute(k)
                        THEN volume(valid_decisions[k])
                             * ((amount(valid_decisions[k]) * 2) \div 100)
                        ELSE 0)
            number(action) ==
                Cardinality({ k \in 1..n : valid_decisions[k].decision = action })
        IN  /\ metrics.total_cost = cost[n]
            /\ metrics.total_revenue_saved = revenue[n]
            /\ metrics.net_profit = revenue[n] - cost[n]
            /\ metrics.reroutes_executed = number("REROUTE")
            /\ metrics.reroutes_ignored = number("IGNORE")
            /\ metrics.alerts_raised = number("ALERT")
            /\ metrics.patterns_discovered = n
            /\ metrics.reroutes_executed + metrics.reroutes_ignored + metrics.alerts_raised
                 <= metrics.patterns_discovered

\* a REROUTE of a reported volume of 1000 matched the SBI cluster of 127
\* failures and cost 127 x 15 rupees; the THROTTLE beside it added nothing and
\* is in none of the three counts
C25_ClusterVolumeAndUncountedAction ==
    /\ pc = "save"
    /\ Len(valid_decisions) = 2
    /\ valid_decisions[1].decision = "REROUTE"
    /\ valid_decisions[1].affected_volume = 1000
    /\ find_matching_cluster(valid_decisions[1], analyzed_clusters) # 0
    /\ valid_decisions[2].decision = "THROTTLE"
    /\ metrics.total_cost = 127 * 1500
    /\ metrics.total_revenue_saved = 127 * 84
    /\ metrics.reroutes_executed + metrics.reroutes_ignored + metrics.alerts_raised = 1
    /\ metrics.patterns_discovered = 2

\* C26 as stated: the cluster matched to a decision is the first, in ranked
\* order, of which at least 2 of bank, card type and amount bucket occur in the
\* lower-cased pattern description, and none when no cluster reaches 2.
C26_FirstClusterWithTwoAttributes ==
    pc = "save" =>
        LET reroutes == WithAction(valid_decisions, "REROUTE")
            occurs(attribute, k) ==
                IF Contains(Lower(reroutes[k].pattern_detected), Lower(attribute))
                THEN 1 ELSE 0
            attributes(k, i) ==
                occurs(analyzed_clusters[i].bank, k)
                + occurs(analyzed_clusters[i].card_type, k)
                + occurs(analyzed_clusters[i].amount_range, k)
        IN  \A k \in 1..Len(matched_clusters) :
              LET m == matched_clusters[k]
              IN  IF \E i \in 1..Len(analyzed_clusters) : attributes(k, i) >= 2
                  THEN /\ m # 0
                       /\ attributes(k, m) >= 2
                       /\ \A i \in 1..(m - 1) : attributes(k, i) < 2
                  ELSE m = 0

\* C26, amended: the amount bucket also counts as occurring when the bucket
\* without its < or > sign occurs in the lower-cased pattern description (100
\* for the bucket <100); with the occurrences counted so, the cluster matched
\* to a decision is the first in ranked order that reaches 2, and none when no
\* cluster does.
C26_FirstClusterWithTwoFuzzyAttributes ==
    pc = "save" =>
        LET reroutes == WithAction(valid_decisions, "REROUTE")
            description(k) == Lower(reroutes[k].pattern_detected)
            occurs(attribute, k) ==
                IF Contains(description(k), Lower(attribute)) THEN 1 ELSE 0
            unsigned(bucket) ==
                SelectSeq(bucket, LAMBDA ch : ch \notin { "<", ">" })
            attributes(k, i) ==
                occurs(analyzed_clusters[i].bank, k)
                + occurs(analyzed_clusters[i].card_type, k)
                + (IF \/ occurs(analyzed_clusters[i].amount_range, k) = 1
                      \/ Contains(description(k), unsigned(analyzed_clusters[i].amount_range))
                   THEN 1 ELSE 0)
        IN  /\ Len(matched_clusters) = Len(reroutes)
            /\ \A k \in 1..Len(matched_clusters) :
                  LET m == matched_clusters[k]
                  IN  IF \E i \in 1..Len(analyzed_clusters) : attributes(k, i) >= 2
                      THEN /\ m # 0
                           /\ attributes(k, m) >= 2
                           /\ \A i \in 1..(m - 1) : attributes(k, i) < 2
                      ELSE m = 0

\* a description naming bank and card type of both clusters was matched to the
\* first of them, and a description naming SBI and 100 to the SBI cluster of the
\* bucket <100, the second
C26_FirstOfTwoAndUnsignedBucket ==
    /\ pc = "save"
    /\ Len(analyzed_clusters) = 2
    /\ Len(matched_clusters) = 2
    /\ valid_decisions[1].pattern_detected = PATTERN_BOTH
    /\ matched_clusters[1] = 1
    /\ valid_decisions[2].pattern_detected = PATTERN_SBI
    /\ matched_clusters[2] = 2

\* C28: a turn of the loop whose decision passes the gate appends exactly one
\* execution record, of that decision, if and only if the action is REROUTE,
\* ALERT or IGNORE; with any other action it appends neither an execution
\* record nor an override, and the saved counts executed + refused then stay
\* below the number of loaded decisions.
C28_OnlyThreeActionsExecuted ==
    [][ (idx' = idx + 1 /\ is_safe') =>
          LET d == decisions[idx']
          IN  /\ refusals' = refusals
              /\ IF d.decision \in { "REROUTE", "ALERT", "IGNORE" }
                 THEN /\ Len(executions') = Len(executions) + 1
                      /\ SubSeq(executions', 1, Len(executions)) = executions
                      /\ executions'[Len(executions')].id = idx'
                      /\ executions'[Len(executions')].action = d.decision
                      /\ executions'[Len(executions')].pattern = d.pattern_detected
                 ELSE executions' = executions ]_vars

\* a THROTTLE passed the gate beside an executed REROUTE: the run recorded one
\* execution and no refusal for two loaded decisions
C28_ThrottleLeftNoRecord ==
    /\ execution_summary.exists
    /\ Len(decisions) = 2
    /\ decisions[1].decision = "THROTTLE"
    /\ validate_decision(decisions[1])[1]
    /\ decisions[2].decision = "REROUTE"
    /\ execution_summary.total_executed = 1
    /\ execution_summary.total_refused = 0
    /\ executions[1].id = 2

\* C30: the proposer call is attempted at most 3 times; an attempt that
\* succeeds returns its decisions with no further attempt; the third failure
\* in a row returns the single fallback decision (IGNORE, confidence 0.0), which
\* the validator rejects, and the run goes on to save zero valid decisions and
\* a net profit of zero instead of ending in an error.
C30_ThreeAttemptsThenFallback ==
    [][ /\ attempt' \in 0..2
        /\ (pc = "llm" /\ pc' = "llm") => (attempt < 2 /\ attempt' = attempt + 1)
        /\ (pc = "llm" /\ pc' # "llm") =>
              /\ pc' = "validate"
              /\ llm_decisions' = << fallback_decision >> => attempt = 2
        /\ llm_decisions = << fallback_decision >> =>
              /\ pc' \in { "validate", "metrics", "save", "done" }
              /\ valid_decisions' = << >>
              /\ pc' \in { "save", "done" } =>
                    /\ metrics'.net_profit = 0
                    /\ metrics'.patterns_discovered = 0
              /\ pc' = "done" =>
                    /\ decisions_file'.exists
                    /\ decisions_file'.decisions = << >> ]_vars

\* three attempts failed, the fallback decision was returned and rejected, and
\* the run saved no decision and a net profit of zero
C30_FallbackRejectedRunSaved ==
    /\ pc = "done"
    /\ llm_decisions = << fallback_decision >>
    /\ llm_decisions[1].decision = "IGNORE"
    /\ llm_decisions[1].confidence = 0
    /\ ~AgentDecisionValid(llm_decisions[1])
    /\ valid_decisions = << >>
    /\ metrics.net_profit = 0
    /\ decisions_file.exists
    /\ decisions_file.decisions = << >>

\* C14: a candidate is accepted exactly when all checks pass together:
\* confidence in [0,1], affected_volume >= 1, avg_amount > 0, the three enums, a
\* pattern of at least 20 characters, a reasoning of at least 100 characters
\* without a denylisted term, a cost narrative of at least 30 characters that
\* references a currency (the rupee sign or Rs), and no REROUTE with a negative net.
C14_AcceptedIffAllChecksPass ==
    pc \in { "metrics", "save" } =>
        \A i \in 1..Len(llm_decisions) :
            LET d        == llm_decisions[i]
                currency == \/ Contains(d.cost_analysis, << "₹" >>)
                            \/ Contains(d.cost_analysis, << "R", "s" >>)
                checks   == /\ d.confidence >= 0 /\ d.confidence <= 100
                            /\ d.affected_volume >= 1
                            /\ d.avg_amount > 0
                            /\ d.temporal_signal \in TemporalSignalEnum
                            /\ d.decision \in DecisionEnum
                            /\ d.risk_category \in RiskCategoryEnum
                            /\ Len(d.pattern_detected) >= 20
                            /\ Len(d.reasoning) >= 100
                            /\ validate_no_technical_jargon(d.reasoning)
                            /\ Len(d.cost_analysis) >= 30
                            /\ currency
                            /\ ~(d.decision = "REROUTE" /\ has_negative(d.cost_analysis))
            IN  (\E j \in 1..Len(valid_decisions) : valid_decisions[j] = d) <=> checks

\* C15: the validated list is the sub-sequence of the candidates that construct
\* an AgentDecision, unchanged and in input order; validate_decision_batch gives
\* one error per rejected candidate, so valid + errors = candidates; and when
\* every candidate is rejected the list is empty and the run goes on to zero
\* decisions and zero financial totals.
C15_RejectedDroppedRestKept ==
    pc \in { "metrics", "save", "done" } =>
        LET batch == validate_decision_batch(llm_decisions)
            kept  == SelectSeq(llm_decisions, AgentDecisionValid)
        IN  /\ valid_decisions = kept
            /\ batch.validated = kept
            /\ Len(batch.validated) + Len(batch.errors) = Len(llm_decisions)
            /\ \A k \in 1..Len(batch.errors) :
                   ~AgentDecisionValid(llm_decisions[batch.errors[k] + 1])
            /\ (kept = << >> /\ pc \in { "save", "done" })
                 => /\ metrics.patterns_discovered = 0
                    /\ metrics.total_cost = 0
                    /\ metrics.total_revenue_saved = 0
                    /\ metrics.net_profit = 0
            /\ (kept = << >> /\ pc = "done" /\ top_clusters # << >>)
                 => (decisions_file.exists /\ decisions_file.decisions = << >>)

\* a rejected candidate followed by an accepted one: the second alone was kept
C15_SecondKeptAfterRejectedFirst ==
    /\ pc = "done"
    /\ Len(llm_decisions) = 2
    /\ ~AgentDecisionValid(llm_decisions[1])
    /\ valid_decisions = << llm_decisions[2] >>
    /\ decisions_file.decisions = valid_decisions

----------------------------------------------------------------------------
(* Properties of the confidence calibrator, under SpecCalibrator.  A       *)
(* calibration never changes the stored record it read, so the record of a *)
(* calibration's pattern type is still the one it was computed from.       *)

\* C6: in every calibration the rule groups exclude each other: RULE_1 and
\* RULE_2 are never both applied, and with RULE_1 or RULE_2 applied neither
\* RULE_3 nor RULE_4 is.
C6_RuleGroupsExclusive ==
    \A i \in 1..Len(calibrations) :
        LET applied == { calibrations[i].rules_applied[k] :
                           k \in 1..Len(calibrations[i].rules_applied) }
        IN  /\ ~("RULE_1" \in applied /\ "RULE_2" \in applied)
            /\ ("RULE_1" \in applied \/ "RULE_2" \in applied)
                 => ("RULE_3" \notin applied /\ "RULE_4" \notin applied)

\* a record with a known accuracy and a recent miss, last seen 49 hours ago, was
\* calibrated by RULE_2 alone
C6_StaleRecordReset ==
    \E i \in 1..Len(calibrations) :
        LET history == pattern_history[calibrations[i].pattern_type]
        IN  /\ calibrations[i].rules_applied = << "RULE_2" >>
            /\ history.prediction_accuracy = 45
            /\ history.last_outcome = "prediction_miss"
            /\ current_time - history.last_seen_timestamp = 49

\* C7 as stated: rules_applied of every calibration is non-empty.
C7_RulesAppliedNonEmpty ==
    \A i \in 1..Len(calibrations) : calibrations[i].rules_applied # << >>

\* C7, amended: rules_applied of a calibration is empty exactly when the record
\* has more than 2 occurrences, was last seen within 48 hours, stores no
\* prediction accuracy and its last outcome is not a miss; its log entry then
\* reads "No change".  In every other calibration one group has fired.
C7_RulesAppliedEmptyOnlyWithoutAccuracy ==
    \A i \in 1..Len(calibrations) :
        LET c       == calibrations[i]
            history == pattern_history[c.pattern_type]
            quiet   == /\ history.total_occurrences > 2
                       /\ history.last_seen_timestamp # NoNumber
                       /\ current_time - history.last_seen_timestamp <= 48
                       /\ history.prediction_accuracy = AbsentKey
                       /\ history.last_outcome # "prediction_miss"
        IN  /\ (c.rules_applied = << >>) <=> quiet
            /\ quiet => c.adjustment_log_entry.reason = "No change"

\* a calibration that applied no rule was produced
C7_NoRuleApplied ==
    \E i \in 1..Len(calibrations) :
        /\ calibrations[i].rules_applied = << >>
        /\ calibrations[i].adjustment_log_entry.reason = "No change"
        /\ calibrations[i].base_modifier
             = pattern_history[calibrations[i].pattern_type].current_confidence_modifier

\* C8: final_confidence_baseline of every calibration is at least 0.40, whatever
\* modifier the history stores, and confidence_floor_hit is true exactly when
\* base_modifier x staleness_decay was below 0.40 before the clamp.
C8_ConfidenceFloor ==
    \A i \in 1..Len(calibrations) :
        LET c       == calibrations[i]
            history == pattern_history[c.pattern_type]
            product == rule_cascade(history, current_time).base * c.staleness_decay
        IN  /\ c.final_confidence_baseline >= 40
            /\ c.confidence_floor_hit <=> (product < 40 * 1000000)

\* a stored modifier of 0.50 with a poor accuracy and two misses gave
\* 0.50 x 0.65 x 0.70 < 0.40, and the floor was hit
C8_FloorHit ==
    \E i \in 1..Len(calibrations) :
        /\ calibrations[i].confidence_floor_hit
        /\ calibrations[i].final_confidence_baseline = 40
        /\ calibrations[i].rules_applied = << "RULE_3", "RULE_4" >>
        /\ pattern_history[calibrations[i].pattern_type].current_confidence_modifier = 50

\* C9: a calibration of a pattern type that follows two calibrations of the type
\* whose outcomes are both recorded as misses applies Rule 4 with the x0.70
\* penalty: RULE_4 is in its rules_applied and its base modifier is at most 0.70
\* of the stored modifier.
C9_ThirdCalibrationPenalised ==
    \A i \in 1..Len(calibrations) :
        LET c       == calibrations[i]
            history == pattern_history[c.pattern_type]
        IN  ( /\ history.total_occurrences >= 2
              /\ history.last_outcome = "prediction_miss"
              /\ history.second_to_last_outcome = "prediction_miss" )
            => /\ \E k \in 1..Len(c.rules_applied) : c.rules_applied[k] = "RULE_4"
               /\ c.base_modifier * 100 <= history.current_confidence_modifier * 70 + 50

\* C10: every calibration appends exactly one entry, its adjustment_log_entry, to
\* the adjustment log of the record of its pattern type, and leaves the entries
\* already stored as they were.
C10_LogEntryAppended ==
    [][ Len(calibrations') = Len(calibrations) + 1 =>
          LET c       == calibrations'[Len(calibrations')]
              earlier == IF c.pattern_type \in DOMAIN pattern_history
                         THEN pattern_history[c.pattern_type].confidence_adjustment_log
                         ELSE << >>
          IN  pattern_history'[c.pattern_type].confidence_adjustment_log
                = Append(earlier, c.adjustment_log_entry) ]_vars

\* C11: the store is persisted after every mutation: between the calibrations of
\* two clusters of a run the durable copy holds the records of the in-memory
\* store, so that a crash there loses no record of a finished calibration.
C11_PersistedAfterEveryMutation ==
    (pc \in { "calibrate", "error" } /\ cal_idx > 0 /\ cal_idx < Len(top_clusters))
        => /\ disk_history.exists
           /\ DOMAIN disk_history.data = DOMAIN pattern_history
           /\ \A t \in DOMAIN pattern_history : disk_history.data[t] = pattern_history[t]

\* C13: when data/pattern_history.json cannot be read, absent included, no
\* calibration is produced: the calibrator never goes on with an empty store and
\* default records (modifier 1.0, no occurrence) in its place.
C13_NoCalibrationWithoutStore ==
    (pc = "calibrate" /\ ~disk_history.exists) => calibrations = << >>

\* C21: whenever the record of a calibration's pattern type has
\* total_occurrences <= 2, a record created in that calibration included,
\* rules_applied is exactly [RULE_1] and base_modifier is 0.80, whatever the
\* stored modifier, accuracy, last outcomes and last-seen timestamp.
C21_FreshPatternOverride ==
    \A i \in 1..Len(calibrations) :
        LET c       == calibrations[i]
            history == pattern_history[c.pattern_type]
        IN  history.total_occurrences <= 2
              => /\ c.rules_applied = << "RULE_1" >>
                 /\ c.base_modifier = 80

\* a record of 2 occurrences with a stored modifier of 0.50, an accuracy of 0.45,
\* two misses and a last sighting 49 hours ago was calibrated by RULE_1 alone
C21_TwoOccurrencesOverridden ==
    \E i \in 1..Len(calibrations) :
        LET c       == calibrations[i]
            history == pattern_history[c.pattern_type]
        IN  /\ history.total_occurrences = 2
            /\ history.current_confidence_modifier = 50
            /\ history.prediction_accuracy = 45
            /\ history.last_outcome = "prediction_miss"
            /\ history.second_to_last_outcome = "prediction_miss"
            /\ current_time - history.last_seen_timestamp = 49
            /\ c.rules_applied = << "RULE_1" >>
            /\ c.base_modifier = 80

\* C22: whenever total_occurrences > 2 and the record was last seen strictly
\* more than 48 hours before the calibration, rules_applied is exactly [RULE_2]
\* and base_modifier is 1.0, with no accuracy scaling and no miss penalty; when
\* it was last seen 48 hours before or less, RULE_2 is not applied.
C22_StalenessReset ==
    \A i \in 1..Len(calibrations) :
        LET c       == calibrations[i]
            history == pattern_history[c.pattern_type]
            seen    == history.last_seen_timestamp
            applied == { c.rules_applied[k] : k \in 1..Len(c.rules_applied) }
        IN  /\ (history.total_occurrences > 2 /\ seen # NoNumber
                 /\ current_time - seen > 48)
                  => (c.rules_applied = << "RULE_2" >> /\ c.base_modifier = 100)
            /\ (seen # NoNumber /\ current_time - seen <= 48)
                  => "RULE_2" \notin applied

\* a record of 3 occurrences last seen exactly 48 hours ago, with an accuracy of
\* 0.45 and a miss, was calibrated by rules 3 and 4 and not reset
C22_ExactlyFortyEightHoursNotReset ==
    \E i \in 1..Len(calibrations) :
        LET c       == calibrations[i]
            history == pattern_history[c.pattern_type]
        IN  /\ history.total_occurrences = 3
            /\ current_time - history.last_seen_timestamp = 48
            /\ history.prediction_accuracy = 45
            /\ history.last_outcome = "prediction_miss"
            /\ c.rules_applied = << "RULE_3", "RULE_4" >>
            /\ c.base_modifier < 100

\* C23: with total_occurrences > 2 and a last sighting at most 48 hours ago the
\* base modifier is the stored modifier x accuracy factor x miss factor: the
\* accuracy factor is 1 for accuracy >= 0.85, 0.92 for >= 0.70, 0.80 for >= 0.50,
\* 0.65 below, and 1 with RULE_3 not recorded when the accuracy is unknown; the
\* miss factor is 0.70 when the two most recent outcomes are misses, 0.88 when
\* only the most recent is, and 1 with RULE_4 not recorded otherwise; RULE_3 is
\* recorded before RULE_4.
C23_AccuracyThenMissFactor ==
    \A i \in 1..Len(calibrations) :
        LET c        == calibrations[i]
            history  == pattern_history[c.pattern_type]
            seen     == history.last_seen_timestamp
            accuracy == history.prediction_accuracy
            known    == accuracy >= 0
            accuracy_factor ==
                IF ~known \/ accuracy >= 85 THEN 100
                ELSE IF accuracy >= 70 THEN 92
                ELSE IF accuracy >= 50 THEN 80
                ELSE 65
            last_miss   == history.last_outcome = "prediction_miss"
            second_miss == history.second_to_last_outcome = "prediction_miss"
            miss_factor == IF last_miss /\ second_miss THEN 70
                           ELSE IF last_miss THEN 88
                           ELSE 100
            product  == history.current_confidence_modifier * accuracy_factor * miss_factor
        IN  (history.total_occurrences > 2 /\ seen # NoNumber /\ current_time - seen <= 48)
              => /\ c.base_modifier \in Round2(product, 10000)
                 /\ c.rules_applied
                      = (IF known THEN << "RULE_3" >> ELSE << >>)
                        \o (IF last_miss THEN << "RULE_4" >> ELSE << >>)

\* a stored modifier of 1.0 with an accuracy of 0.75 and one miss, the most
\* recent, gave 1.0 x 0.92 x 0.88 = 0.8096, reported as 0.81
C23_AccuracyAndOneMiss ==
    \E i \in 1..Len(calibrations) :
        LET c       == calibrations[i]
            history == pattern_history[c.pattern_type]
        IN  /\ history.total_occurrences = 3
            /\ current_time - history.last_seen_timestamp = 48
            /\ history.current_confidence_modifier = 100
            /\ history.prediction_accuracy = 75
            /\ history.last_outcome = "prediction_miss"
            /\ history.second_to_last_outcome = None
            /\ c.rules_applied = << "RULE_3", "RULE_4" >>
            /\ c.base_modifier = 81

----------------------------------------------------------------------------
(* Two runs on one pattern history file, under SpecConcurrent.             *)

\* C12: when two runs calibrate against the same file, no update is lost: once
\* both have saved, every record either run holds is in the persisted store.
C12_NoLostUpdate ==
    (pc = "llm" /\ peer.pc = "done")
        => \A t \in DOMAIN pattern_history \cup DOMAIN peer.pattern_history :
               t \in DOMAIN disk_history.data

----------------------------------------------------------------------------
(* Properties of the loader and the clusterer, under SpecFeed.             *)

\* C16: every cluster the clusterer returns has count >= 10, the number of the
\* failed rows of its (bank, card type, amount bucket); its failure_rate is that
\* count divided by the number of all rows with the same key (here to the
\* hundredth) and lies in [0, 1]; no smaller group of failures is returned.
C16_ClusterInvariant ==
    \A i \in 1..Len(created_clusters) :
        LET c       == created_clusters[i]
            same(row) == /\ row.bank = c.bank
                         /\ row.card_type = c.card_type
                         /\ get_amount_bucket(row.amount) = c.amount_range
            segment == SelectSeq(df, same)
            group   == SelectSeq(segment, LAMBDA row : row.status = "FAILED")
        IN  /\ c.count = Len(group)
            /\ c.count >= 10
            /\ c.failure_rate * Len(segment) <= c.count * 100
            /\ c.count * 100 < (c.failure_rate + 1) * Len(segment)
            /\ c.failure_rate >= 0 /\ c.failure_rate <= 100

\* ten failures and one success of SBI Debit gave one cluster with failure rate
\* 10 / 11, and the nine failures of HDFC Rewards gave none
C16_OneClusterOfTwoGroups ==
    /\ pc = "rank"
    /\ Len(created_clusters) = 1
    /\ created_clusters[1].bank = SBI
    /\ created_clusters[1].count = 10
    /\ created_clusters[1].failure_rate = 90
    /\ Len(df) = 20
    /\ Len(SelectSeq(failures, LAMBDA row : row.bank = HDFC)) = 9

\* C18: for every finite transaction set, the empty one included, the run
\* completes without an error; when no cluster qualifies the report has zero
\* decisions, patterns, cost, revenue and profit, no calibration was made and
\* the pattern history is as it was loaded.
C18_EveryFeedCompletes ==
    /\ ( /\ transactions_file.exists
         /\ \A i \in 1..Len(transactions_file.data) :
              LET row == transactions_file.data[i]
              IN  /\ TransactionValid(row)
                  /\ (row.error_code = None) <=> (row.status = "SUCCESS") )
       => pc # "error"
    /\ (pc = "done" /\ top_clusters = << >>)
       => /\ metrics = ZeroMetrics
          /\ calibrations = << >>
          /\ pattern_history = load_pattern_history(disk_history)

\* C19: every row the Transaction model accepts has a null error_code exactly
\* when its status is SUCCESS.
C19_ErrorCodeNullIffSuccess ==
    pc \in { "filter", "cluster", "rank", "start" } =>
        \A i \in 1..Len(df) :
            i <= VALIDATED_ROWS => ((df[i].error_code = None) <=> (df[i].status = "SUCCESS"))

\* C20: a row the Transaction model rejects is skipped and does not abort the
\* run: a feed with such rows at any positions is loaded, and none of them is
\* among the rows that are clustered.
C20_MalformedRowsSkipped ==
    /\ ( /\ transactions_file.exists
         /\ \E i \in 1..Len(transactions_file.data) :
              ~TransactionValid(transactions_file.data[i])
         /\ \E i \in 1..Len(transactions_file.data) :
              TransactionValid(transactions_file.data[i]) )
       => pc # "error"
    /\ pc \in { "filter", "cluster", "rank", "start" }
       => \A i \in 1..Len(df) : TransactionValid(df[i])

----------------------------------------------------------------------------
(* The ranker, under SpecRanker.                                           *)

\* C17: the ranker returns the first min(12, n) of the n clusters in the order
\* of count x avg_amount descending, ties by ascending (bank, card type, amount
\* bucket); the keys being distinct the order is total, and the result is the
\* same for the list in another order.
C17_TopRankedInTotalOrder ==
    pc = "start" =>
        LET n            == Len(created_clusters)
            impact(c)    == c.count * c.avg_amount
            before(a, b) == \/ impact(a) > impact(b)
                            \/ /\ impact(a) = impact(b)
                               /\ \/ TextLess(a.bank, b.bank)
                                  \/ a.bank = b.bank /\ TextLess(a.card_type, b.card_type)
                                  \/ /\ a.bank = b.bank /\ a.card_type = b.card_type
                                     /\ TextLess(a.amount_range, b.amount_range)
            given        == { created_clusters[i] : i \in 1..n }
            returned     == { top_clusters[i] : i \in 1..Len(top_clusters) }
        IN  /\ Len(top_clusters) = IF n < 12 THEN n ELSE 12
            /\ returned \subseteq given
            /\ \A i, j \in 1..Len(top_clusters) :
                   i < j => before(top_clusters[i], top_clusters[j])
            /\ \A c \in given \ returned : \A r \in returned : before(r, c)
            /\ top_clusters = rank_clusters(Reversed(created_clusters), MAX_CLUSTERS)

\* more than 12 clusters were given in descending key order; 12 came back, the
\* Credit cluster of Axis first among those of its impact
C17_TwelveOfMoreWithTies ==
    /\ pc = "start"
    /\ Len(created_clusters) > 12
    /\ Len(top_clusters) = 12
    /\ KeyLess(cluster_key(created_clusters[2]), cluster_key(created_clusters[1]))
    /\ \E i \in 1..11 :
          /\ top_clusters[i].bank = AXIS /\ top_clusters[i].card_type = CREDIT
          /\ top_clusters[i + 1].bank = AXIS /\ top_clusters[i + 1].card_type = DEBIT
          /\ top_clusters[i].count * top_clusters[i].avg_amount
               = top_clusters[i + 1].count * top_clusters[i + 1].avg_amount

----------------------------------------------------------------------------
(* The classifier, under SpecClassifier: calibration i is that of cluster  *)
(* i of top_clusters.                                                      *)

\* C24: the pattern type of a cluster is exactly one of the six labels, that of
\* the first rule that matches in the order bank_spike, micro_transaction,
\* vip_anomaly, card_testing, high_risk_payment, payment_failure (the default):
\* a cluster that matches several rules gets the label of the earliest.
C24_FirstMatchingRuleWins ==
    \A i \in 1..Len(calibrations) :
        LET cluster == top_clusters[i]
            text    == pattern_text(cluster)
            rules   ==
              << [ label   |-> "bank_spike",
                   matches |-> /\ cluster.failure_rate > 70
                               /\ Contains(text, << "s", "p", "i", "k", "e" >>) ],
                 [ label   |-> "micro_transaction",
                   matches |-> \/ Contains(cluster.amount_range, << "<", "1", "0", "0" >>)
                               \/ Contains(cluster.amount_range, << "<", "2", "0", "0" >>) ],
                 [ label   |-> "vip_anomaly",
                   matches |-> \/ Contains(cluster.amount_range, << ">", "5", "0", "0", "0" >>)
                               \/ cluster.avg_amount > 500000 ],
                 [ label   |-> "card_testing",
                   matches |-> cluster.count > 50 /\ cluster.failure_rate > 80 ],
                 [ label   |-> "high_risk_payment",
                   matches |-> \/ Contains(text, << "f", "r", "a", "u", "d" >>)
                               \/ Contains(text, << "s", "e", "c", "u", "r", "i", "t", "y" >>) ],
                 [ label   |-> "payment_failure", matches |-> TRUE ] >>
        IN  \E k \in 1..6 :
              /\ calibrations[i].pattern_type = rules[k].label
              /\ rules[k].matches
              /\ \A j \in 1..(k - 1) : ~rules[j].matches

\* a '<100' cluster with count > 50 and failure rate > 0.8 was classified
\* micro_transaction
C24_MicroBeforeCardTesting ==
    /\ Len(calibrations) = 1
    /\ top_clusters[1].amount_range = << "<", "1", "0", "0" >>
    /\ top_clusters[1].count > 50
    /\ top_clusters[1].failure_rate > 80
    /\ top_clusters[1].bank = SBI
    /\ calibrations[1].pattern_type = "micro_transaction"

----------------------------------------------------------------------------
(* Runs that start from an empty store, under SpecRuns.                    *)

\* C27: when the runs start with no stored history and only they write the
\* store, every calibration of every run has rules_applied = [RULE_1],
\* base_modifier 0.80, staleness_decay 1.0, final_confidence_baseline 0.80,
\* confidence_floor_hit false and needs_rescan false: every stored record stays
\* the one the calibrator created, with no occurrence, outcome, accuracy or
\* last-seen timestamp and a modifier of 1.0.
C27_AlwaysFreshFromEmptyStore ==
    /\ \A i \in 1..Len(calibrations) :
          /\ calibrations[i].rules_applied = << "RULE_1" >>
          /\ calibrations[i].base_modifier = 80
          /\ calibrations[i].staleness_decay = 100
          /\ calibrations[i].final_confidence_baseline = 80
          /\ ~calibrations[i].confidence_floor_hit
          /\ ~calibrations[i].needs_rescan
    /\ \A t \in DOMAIN pattern_history :
          /\ pattern_history[t].total_occurrences = 0
          /\ pattern_history[t].prediction_accuracy = NoNumber
          /\ pattern_history[t].last_seen_timestamp = NoNumber
          /\ pattern_history[t].last_outcome = None
          /\ pattern_history[t].second_to_last_outcome = None
          /\ pattern_history[t].current_confidence_modifier = 100
    /\ disk_history.exists =>
          \A t \in DOMAIN disk_history.data :
              /\ disk_history.data[t].total_occurrences = 0
              /\ disk_history.data[t].current_confidence_modifier = 100

\* the third run, 98 hours after the first, calibrated a pattern type the
\* earlier runs had stored
C27_ThirdRunOfStoredType ==
    /\ pc = "calibrate"
    /\ current_time = 1000 + 2 * 49
    /\ disk_history.exists
    /\ Len(calibrations) = 2
    /\ calibrations[1].pattern_type = calibrations[2].pattern_type
    /\ calibrations[2].pattern_type \in DOMAIN disk_history.data
    /\ calibrations[2].rules_applied = << "RULE_1" >>

====
